---- MODULE Spec2Model ----
(***************************************************************************)
(* A model of the script execution engine of UsefulClicker,                *)
(* src/core/xml_engine_old.py (class XMLProgram): the variable store,      *)
(* placeholder substitution and expression evaluation, the pause/skip      *)
(* flags written by the hotkey thread and read by the worker, the          *)
(* interruptible wait, the pause gate, and the control-flow handlers.      *)
(*                                                                         *)
(* Time is in milliseconds.  Python strings are TLA+ strings; an attribute *)
(* of the script is kept as the sequence of its lexical pieces (literal    *)
(* text and ${name|filter} placeholders), which is what _VAR_PATTERN finds *)
(* in it.  A Python value is a record [t, n, s, l] whose tag t says which  *)
(* field carries it; a float is carried in thousandths.                    *)
(***************************************************************************)
EXTENDS Integers, Sequences, FiniteSets, TLC

VARIABLES
    scen,             \* the scenario: the script that was loaded, with what a run of
                      \* it is expected to do
    tree,             \* list(self.tree): the top-level nodes of the loaded script
    functions,        \* self.functions: name -> the children of the func node
    variables,        \* self.variables: the Variable Store
    skip_wait,        \* self.skip_wait
    paused,           \* self.paused
    _last_ctrlspace,  \* self._last_ctrlspace
    restart_requested,\* the restart flag of core.xml_engine (not in xml_engine_old.py)
    keyboard,         \* whether the optional module `keyboard` was imported
    instances,        \* the XMLProgram objects of one process, where several are
                      \* followed: their dicts on a heap, and each object's fields
    hotkeys,          \* the listener thread of _start_pause_listener, the callbacks
                      \* the keyboard module has yet to run, and the presses made
    typing,           \* one call of _type_text: its position, its locals, the
                      \* clipboard, and the calls it made of pyperclip and pyautogui
    extnode,          \* self._extmodule_cache and self._extnode_cache, and the
                      \* imports, constructions and calls handle_extnode made
    runner,           \* usefulclicker_runner: the daemon's _text_buffer and
                      \* _buf_lock, the tap's thread and the runner's loop
    keyN,             \* ctrl and n are both held down
    keySpace,         \* ctrl and space are both held down
    bridge,           \* whether voice.voice_daemon can be imported
    SKIP_EVENT,       \* voice.voice_daemon.SKIP_EVENT.is_set()
    PAUSE_TOGGLE_EVENT,  \* voice.voice_daemon.PAUSE_TOGGLE_EVENT.is_set()
    voice,            \* "on": self.voice is set; "ready_env", "ready": VoiceDaemon can
                      \* be started and USEFULCLICKER_VOICE is / is not set;
                      \* "absent": VoiceDaemon is None or fails to start
    now,              \* time.time(), in ms since the run began
    pc,               \* the worker's position
    stack,            \* the worker's call stack: one frame per active loop
    cur,              \* the node _exec_node is working on
    gret,             \* which _pause_gate() call the worker is in
    end_ts,           \* _sleep_ms_interruptible: end_ts
    dur,              \* _sleep_ms_interruptible: the argument of the pending time.sleep
    wret,             \* where the current _sleep_ms_interruptible returns to
    err,              \* the exception that ended run(), "" if none
    trace,            \* observation: the ids of the nodes whose handler was entered,
                      \* and the lines handle_check logs
    obs               \* observation: per-wait and per-handler bookkeeping

vars == <<scen, tree, functions, variables, skip_wait, paused, _last_ctrlspace,
          restart_requested, keyboard, instances, hotkeys, typing, extnode, runner,
          keyN, keySpace,
          bridge, SKIP_EVENT, PAUSE_TOGGLE_EVENT, voice, now, pc, stack, cur,
          gret, end_ts, dur, wret, err, trace, obs>>

-----------------------------------------------------------------------------
(* Bounds of the model *)

\* the clock stops the model after this many 50 ms slices
MaxSlices == 5
\* each key combination is pressed at most this many times where presses are counted
MaxPresses == 1
\* repeat counts and integer literals range over -MaxTimes..MaxTimes
MaxTimes == 3
\* foreach lists have up to this many elements
MaxItems == 3

\* _sleep_ms_interruptible: step = 0.05, and the 0.05 of _pause_gate
step == 50

-----------------------------------------------------------------------------
(* Python values *)

IntV(i)   == [t |-> "int",   n |-> i, s |-> "", l |-> <<>>]
FloatV(m) == [t |-> "float", n |-> m, s |-> "", l |-> <<>>]
BoolV(b)  == [t |-> "bool",  n |-> IF b THEN 1 ELSE 0, s |-> "", l |-> <<>>]
StrV(x)   == [t |-> "str",   n |-> 0, s |-> x,  l |-> <<>>]
ListV(q)  == [t |-> "list",  n |-> 0, s |-> "", l |-> q]
NoneV     == [t |-> "none",  n |-> 0, s |-> "", l |-> <<>>]

Ok(v)     == [ok |-> TRUE,  val |-> v]
Raise     == [ok |-> FALSE, val |-> NoneV]

\* d[k] = v
Put(d, k, v) == [x \in DOMAIN d \cup {k} |-> IF x = k THEN v ELSE d[x]]
\* d.get(k)
Get(d, k) == IF k \in DOMAIN d THEN d[k] ELSE NoneV

AbsI(i) == IF i < 0 THEN -i ELSE i

\* repr of a float given in thousandths, as Python prints it: 1004 -> "1.004",
\* 1020 -> "1.02", 1000 -> "1.0"
FloatStr(m) ==
    LET a == AbsI(m)
        w == a \div 1000
        f == a % 1000
        frac == IF f = 0 THEN "0"
                ELSE IF f % 100 = 0 THEN ToString(f \div 100)
                ELSE IF f % 10 = 0
                     THEN (IF f < 100 THEN "0" ELSE "") \o ToString(f \div 10)
                ELSE (IF f < 10 THEN "00" ELSE IF f < 100 THEN "0" ELSE "")
                     \o ToString(f)
    IN (IF m < 0 THEN "-" ELSE "") \o ToString(w) \o "." \o frac

RECURSIVE ListStr(_)
\* the inside of repr(list of str): 'a', 'b'
ListStr(q) ==
    IF q = <<>> THEN ""
    ELSE "'" \o Head(q) \o "'"
         \o (IF Len(q) > 1 THEN ", " ELSE "") \o ListStr(Tail(q))

\* str(v)
PyStr(v) ==
    CASE v.t = "int"   -> ToString(v.n)
      [] v.t = "float" -> FloatStr(v.n)
      [] v.t = "bool"  -> IF v.n = 1 THEN "True" ELSE "False"
      [] v.t = "str"   -> v.s
      [] v.t = "list"  -> "[" \o ListStr(v.l) \o "]"
      [] v.t = "none"  -> "None"

-----------------------------------------------------------------------------
(* Script nodes *)

\* a piece of literal text, a ${name} placeholder, a ${name|filter} placeholder
Txt(x)    == [ph |-> FALSE, s |-> x, filt |-> ""]
Ph(x)     == [ph |-> TRUE,  s |-> x, filt |-> ""]
PhF(x, f) == [ph |-> TRUE,  s |-> x, filt |-> f]

\* one attribute: its name and its raw value
At(k, v) == [k |-> k, v |-> v]
\* an element: a unique id, the tag, node.attrib in document order, list(node)
Node(id, tag, attrs, kids) ==
    [id |-> id, tag |-> tag, attrs |-> attrs, kids |-> kids]

NoNode == Node("", "", <<>>, <<>>)

RECURSIVE RawText(_)
\* the attribute's text as written in the script
RawText(toks) ==
    IF toks = <<>> THEN ""
    ELSE LET h == Head(toks)
         IN (IF h.ph
             THEN "${" \o h.s \o (IF h.filt = "" THEN "" ELSE "|" \o h.filt) \o "}"
             ELSE h.s) \o RawText(Tail(toks))

HasAttr(node, k) == \E i \in 1..Len(node.attrs) : node.attrs[i].k = k
AttrToks(node, k) ==
    node.attrs[CHOOSE i \in 1..Len(node.attrs) : node.attrs[i].k = k].v
\* node.get(k, default): the raw text
NodeGet(node, k, default) ==
    IF HasAttr(node, k) THEN RawText(AttrToks(node, k)) ELSE default

-----------------------------------------------------------------------------
(* Texts the model's scripts can produce, and what Python reads in them.   *)
(* Every reader below is defined on these texts only: a text outside them  *)
(* matches no CASE arm and stops the check instead of being misread.       *)

\* the elements foreach lists are made of: "e1", "e2", ...
Item(i) == "e" \o ToString(i)
ItemList(k) == [i \in 1..k |-> Item(i)]
ItemLists == {ItemList(k) : k \in 0..(MaxItems + 1)}

IntDom == ((-(MaxTimes + 1))..(MaxTimes + 1)) \cup {10 * i : i \in 0..(5 * (MaxSlices + 2))}
IntTexts == {ToString(i) : i \in IntDom}
IntLitVal(text) == CHOOSE i \in IntDom : ToString(i) = text

\* float literals, in thousandths
FloatLit ==
    ("1.004" :> 1004) @@ ("1.0" :> 1000) @@ ("1.02" :> 1020) @@ ("0.01" :> 10)
    @@ ("2.7" :> 2700) @@ ("0.0" :> 0)
FloatTexts == DOMAIN FloatLit

\* quoted string literals
StrLit == ("'abc'" :> "abc") @@ ("'3'" :> "3") @@ ("'2.7'" :> "2.7")
StrTexts == DOMAIN StrLit

ListTexts == {"[" \o ListStr(q) \o "]" : q \in ItemLists}
ListLitVal(text) == CHOOSE q \in ItemLists : "[" \o ListStr(q) \o "]" = text

\* identifiers
Idents == {Item(i) : i \in 1..(MaxItems + 1)} \cup
          {"a", "b", "c", "d", "n", "m", "x", "y", "abc", "item", "index", "arg0",
           "arg1", "ITEMS", "last", "missing", "f", "g", "nofunc", "True", "False",
           "v", "w", "seen", "hello"}
RECURSIVE JoinLines(_)
\* the elements, one per line
JoinLines(q) ==
    IF q = <<>> THEN ""
    ELSE Head(q) \o (IF Len(q) > 1 THEN "\n" ELSE "") \o JoinLines(Tail(q))
\* texts of several lines
MultiTexts == {JoinLines(q) : q \in {x \in ItemLists : Len(x) >= 2}}

\* texts Python's parser rejects (SyntaxError)
BadTexts == {"", "1.0.0", "3 x"} \cup MultiTexts

\* [s for s in re.split(r"[\r\n]+", text) if s.strip()]
SplitLines(text) ==
    CASE text \in MultiTexts -> CHOOSE q \in ItemLists : JoinLines(q) = text
      [] text = "" -> <<>>
      [] text \in IntTexts \cup FloatTexts \cup StrTexts \cup ListTexts \cup Idents
                  \cup {"1.0.0", "3 x"} -> <<text>>

\* _ALLOWED_MATH, the entries that are values
_ALLOWED_MATH == ("True" :> BoolV(TRUE)) @@ ("False" :> BoolV(FALSE))

\* int(text) of a raw attribute
IntOfText(text) ==
    CASE text \in IntTexts -> Ok(IntV(IntLitVal(text)))
      [] text \in FloatTexts \cup StrTexts \cup ListTexts \cup Idents \cup BadTexts
           -> Raise

\* float(text)
FloatOfText(text) ==
    CASE text \in IntTexts -> Ok(FloatV(1000 * IntLitVal(text)))
      [] text \in FloatTexts -> Ok(FloatV(FloatLit[text]))
      [] text \in StrTexts \cup ListTexts \cup Idents \cup BadTexts -> Raise

\* int(v): a float truncates toward zero
PyInt(v) ==
    CASE v.t \in {"int", "bool"} -> Ok(IntV(v.n))
      [] v.t = "float" ->
           Ok(IntV(IF v.n < 0 THEN -((-v.n) \div 1000) ELSE v.n \div 1000))
      [] v.t = "str" -> IntOfText(v.s)
      [] v.t \in {"list", "none"} -> Raise

\* float(v)
PyFloat(v) ==
    CASE v.t \in {"int", "bool"} -> Ok(FloatV(1000 * v.n))
      [] v.t = "float" -> Ok(v)
      [] v.t = "str" -> FloatOfText(v.s)
      [] v.t \in {"list", "none"} -> Raise

-----------------------------------------------------------------------------
(* Substitution and evaluation *)

UrlFilters == {"url", "urlencode", "quote", "quote_plus"}
\* filt.strip().lower(), on the filter names the model's scripts use
FilterLower(f) ==
    CASE f \in UrlFilters \cup {"", "upper", "raw"} -> f
      [] f = "URL" -> "url"

\* urllib.parse.quote_plus, on the texts the model's scripts quote
quote_plus(x) ==
    CASE x \in IntTexts \cup FloatTexts \cup Idents \cup {""} -> x
      [] x = "a b" -> "a+b"
      [] x = "a&b" -> "a%26b"
      [] x = "${x}" -> "%24%7Bx%7D"

_apply_filter(value, filt) ==
    IF FilterLower(filt) \in UrlFilters THEN quote_plus(PyStr(value)) ELSE PyStr(value)

RECURSIVE _substitute_vars(_, _)
\* _VAR_PATTERN.sub(repl, value): one pass over the attribute's pieces
_substitute_vars(toks, vs) ==
    IF toks = <<>> THEN ""
    ELSE LET h == Head(toks)
             raw == IF h.s \in DOMAIN vs THEN vs[h.s] ELSE StrV("")
         IN (IF h.ph THEN _apply_filter(raw, h.filt) ELSE h.s)
            \o _substitute_vars(Tail(toks), vs)

\* eval(expr, {"__builtins__": {}}, env) with env = _ALLOWED_MATH updated by the store
_safe_eval(expr, vs) ==
    CASE expr \in IntTexts   -> Ok(IntV(IntLitVal(expr)))
      [] expr \in FloatTexts -> Ok(FloatV(FloatLit[expr]))
      [] expr \in StrTexts   -> Ok(StrV(StrLit[expr]))
      [] expr \in ListTexts  -> Ok(ListV(ListLitVal(expr)))
      [] expr \in Idents ->
           IF expr \in DOMAIN vs THEN Ok(vs[expr])
           ELSE IF expr \in DOMAIN _ALLOWED_MATH THEN Ok(_ALLOWED_MATH[expr])
           ELSE Raise
      [] expr \in BadTexts -> Raise

-----------------------------------------------------------------------------
(* The loaded program *)

\* str.lower(), on the tags and attribute values the model's scripts use
lower(tag) ==
    CASE tag \in {"", "set", "if", "else", "check", "foreach", "func", "call",
                  "repeat", "wait", "voice_event", "voice_poll", "note"} -> tag
      [] tag = "Func" -> "func"
      [] tag = "Wait" -> "wait"
      [] tag = "Else" -> "else"
      [] tag = "Voice_Poll" -> "voice_poll"
      [] tag \in {"type", "click", "shell", "extnode"} -> tag
      [] tag \in {"text", "list"} -> tag
      [] tag \in {"include", "program"} -> tag
      [] tag = "Program" -> "program"

RECURSIVE DocOrder(_)
\* the nodes below the root in document order, as tree.findall(".//...") visits them
DocOrder(nodes) ==
    IF nodes = <<>> THEN <<>>
    ELSE <<Head(nodes)>> \o DocOrder(Head(nodes).kids) \o DocOrder(Tail(nodes))

RECURSIVE RegisterFirstWins(_, _)
\* a table that keeps the first func node of a name
RegisterFirstWins(nodes, table) ==
    IF nodes = <<>> THEN table
    ELSE LET f == Head(nodes)
             name == NodeGet(f, "name", "")
         IN RegisterFirstWins(Tail(nodes),
                IF f.tag = "func" /\ name # "" /\ name \notin DOMAIN table
                THEN Put(table, name, f) ELSE table)

RECURSIVE Register(_, _)
\* _load_xml: for func in self.tree.findall(".//func"): self.functions[name] = func
Register(nodes, table) ==
    IF nodes = <<>> THEN table
    ELSE LET f == Head(nodes)
             name == NodeGet(f, "name", "")
         IN Register(Tail(nodes),
                     IF f.tag = "func" /\ name # "" THEN Put(table, name, f) ELSE table)

_load_xml(top) == Register(DocOrder(top), <<>>)

\* <include>rel</include>: the element's text is kept under "text"
Include(id, rel) == Node(id, "include", <<At("text", <<Txt(rel)>>)>>, <<>>)

\* an inlining that puts the text of the file in place, wrapper and all
_inner_program_whole(elems) == elems

\* _inner_program: a file is the sequence of the elements of its text; the
\* children of a lone <program>, otherwise the text as it is
_inner_program(elems) ==
    IF Len(elems) = 1 /\ lower(elems[1].tag) = "program" THEN elems[1].kids
    ELSE elems

\* an inlining that leaves the include of a missing file in the text
repl_include_keep(m, files) ==
    IF NodeGet(m, "text", "") \notin DOMAIN files THEN <<m>>
    ELSE _inner_program(files[NodeGet(m, "text", "")])

\* repl_include(m): "" when the file does not exist, else _inner_program of its
\* text
repl_include(m, files) ==
    IF NodeGet(m, "text", "") \notin DOMAIN files THEN <<>>
    ELSE _inner_program(files[NodeGet(m, "text", "")])

RECURSIVE include_sub(_, _)
\* re.sub(r"<include>\s*(.*?)\s*</include>", repl_include, raw): every include
\* element of the script's own text, at any depth, is replaced; what is put in
\* its place is not searched
include_sub(nodes, files) ==
    IF nodes = <<>> THEN <<>>
    ELSE LET h == Head(nodes)
         IN (IF lower(h.tag) = "include" THEN repl_include(h, files)
             ELSE <<[h EXCEPT !.kids = include_sub(h.kids, files)]>>)
            \o include_sub(Tail(nodes), files)

\* self.variables after __init__ (no screen size available: the defaults)
InitVariables == ("SCREEN_W" :> IntV(1920)) @@ ("SCREEN_H" :> IntV(1080))

-----------------------------------------------------------------------------
(* The worker's stack *)

\* a loop in progress: which handler, its node, the children it walks, the index
\* of the next child, and the handler's locals (n, items, k)
Frame(kind, node, body, n, items) ==
    [kind |-> kind, node |-> node, body |-> body, i |-> 1, n |-> n,
     items |-> items, k |-> 0]

Top == stack[Len(stack)]
SetTop(f) == [stack EXCEPT ![Len(stack)] = f]
Pop == SubSeq(stack, 1, Len(stack) - 1)

WaitPcs == {"w_poll", "w_skip", "w_paused", "w_time", "w_sleep"}
InWait == pc \in WaitPcs

\* bookkeeping of the wait in progress: the requested duration, the ms slept with
\* the pause branch not taken, the sleeps begun with skip_wait already true, the
\* branch the pending sleep was begun in, how the wait ended, whether skip_wait
\* was already true when the wait was called, and how many waits of the run were
\* ended by reading skip_wait true
NoObs == [total |-> 0, active |-> 0, since |-> 0, br |-> "run", exit |-> "none",
          pending |-> FALSE, skips |-> 0]

envVars  == <<keyboard, instances, hotkeys, typing, extnode, runner,
              keyN, keySpace, bridge, SKIP_EVENT,
              PAUSE_TOGGLE_EVENT, voice>>
progVars == <<scen, tree, functions>>
flagVars == <<skip_wait, paused, _last_ctrlspace>>
waitVars == <<end_ts, dur, wret>>

-----------------------------------------------------------------------------
(* Hotkeys *)

\* no call of _type_text
NoTyping == [pc |-> "idle", text |-> "", mode |-> "", pyautogui |-> FALSE,
             pyperclip |-> FALSE, attempt |-> 0, ok |-> FALSE, clipboard |-> "",
             copies |-> 0, reads |-> 0, matched |-> FALSE, clobbered |-> FALSE,
             sent |-> <<>>]
\* XMLProgram.__init__: self._extnode_cache = {}; self._extmodule_cache = {};
\* nothing imported, constructed or called
NoExtnode == [_extmodule_cache |-> <<>>, _extnode_cache |-> <<>>, imports |-> <<>>,
              objects |-> <<>>, calls |-> <<>>]
\* no voice runner
NoRunner == [voice |-> "none"]

\* no XMLProgram object besides the one the worker runs: an empty heap
NoInstances == [heap |-> <<>>, of |-> <<>>, actor |-> 0, backend |-> <<>>]

\* the hotkey thread where it is not followed: no callback is owed to a press
NoHotkeys == [listener |-> "ended", space |-> 0, n |-> 0,
              pressedSpace |-> 0, pressedN |-> 0, ranSpace |-> 0]

\* a toggle that also drops a pending skip
_toggle_pause_dropping_skip ==
    /\ paused' = ~paused
    /\ skip_wait' = FALSE
    /\ UNCHANGED <<progVars, variables, _last_ctrlspace,
                   restart_requested, envVars, now, pc, stack, cur, gret, waitVars,
                   err, trace, obs>>

\* _toggle_pause: self.paused = not self.paused
_toggle_pause ==
    /\ paused' = ~paused
    /\ UNCHANGED <<progVars, variables, skip_wait, _last_ctrlspace,
                   restart_requested, envVars, now, pc, stack, cur, gret, waitVars,
                   err, trace, obs>>

\* _skip_wait_now: self.skip_wait = True
_skip_wait_now ==
    /\ skip_wait' = TRUE
    /\ UNCHANGED <<progVars, variables, paused, _last_ctrlspace,
                   restart_requested, envVars, now, pc, stack, cur, gret, waitVars,
                   err, trace, obs>>

\* _poll_hotkeys_inline, as the values it leaves in skip_wait, paused and
\* _last_ctrlspace
PollSkip == IF keyboard /\ keyN THEN TRUE ELSE skip_wait
PollPressed == keyboard /\ keySpace
PollPaused == IF PollPressed /\ ~_last_ctrlspace THEN ~paused ELSE paused
PollLast ==
    IF ~keyboard THEN _last_ctrlspace
    ELSE IF PollPressed THEN TRUE
    ELSE FALSE

-----------------------------------------------------------------------------
(* _sleep_ms_interruptible *)

\* the call: if total_ms <= 0: return; end_ts = time.time() + total_ms/1000.0
EnterWait(total, ret) ==
    IF total <= 0
    THEN /\ pc' = ret
         /\ UNCHANGED <<waitVars, obs>>
    ELSE /\ pc' = "w_poll"
         /\ end_ts' = now + total
         /\ wret' = ret
         /\ dur' = 0
         /\ obs' = [NoObs EXCEPT !.total = total, !.pending = skip_wait,
                                 !.skips = obs.skips]

\* the loop's first statements: self._poll_hotkeys_inline(), then the SKIP_EVENT
\* bridge, which returns without touching skip_wait
w_poll ==
    /\ pc = "w_poll"
    /\ skip_wait' = PollSkip
    /\ paused' = PollPaused
    /\ _last_ctrlspace' = PollLast
    /\ IF bridge /\ SKIP_EVENT
       THEN /\ SKIP_EVENT' = FALSE
            /\ pc' = wret
            /\ obs' = [obs EXCEPT !.exit = "bridge"]
       ELSE /\ pc' = "w_skip"
            /\ UNCHANGED <<SKIP_EVENT, obs>>
    /\ UNCHANGED <<progVars, variables, restart_requested,
                   keyboard, instances, hotkeys, typing, extnode, runner, keyN, keySpace,
                   bridge, PAUSE_TOGGLE_EVENT, voice, now, stack, cur, gret, waitVars,
                   err, trace>>

\* a wait that tests the pause flag before the skip flag
WaitSkipCheckUnpaused == skip_wait /\ ~paused
\* the condition of `if self.skip_wait:`
WaitSkipCheck == skip_wait
\* a wait that returns on skip without clearing the flag
WaitSkipKeep == skip_wait
\* the value `self.skip_wait = False` stores
WaitSkipClear == FALSE

\* if self.skip_wait: self.skip_wait = False; return
w_skip ==
    /\ pc = "w_skip"
    /\ IF WaitSkipCheck
       THEN /\ skip_wait' = WaitSkipClear
            /\ pc' = wret
            /\ obs' = [obs EXCEPT !.exit = "skip", !.skips = @ + 1]
       ELSE /\ pc' = "w_paused"
            /\ UNCHANGED <<skip_wait, obs>>
    /\ UNCHANGED <<progVars, variables, paused, _last_ctrlspace, restart_requested,
                   envVars, now, stack, cur, gret, waitVars, err, trace>>

\* a wait that does not look at the pause flag
WaitPausedNever == FALSE
\* the condition of `if self.paused:` in the wait loop
WaitPaused == paused

\* if self.paused: time.sleep(step); continue
w_paused ==
    /\ pc = "w_paused"
    /\ IF WaitPaused
       THEN /\ pc' = "w_sleep"
            /\ dur' = step
            /\ obs' = [obs EXCEPT !.br = "pause",
                                  !.since = @ + (IF skip_wait THEN 1 ELSE 0)]
       ELSE /\ pc' = "w_time"
            /\ UNCHANGED <<dur, obs>>
    /\ UNCHANGED <<progVars, variables, flagVars, restart_requested, envVars, now,
                   stack, cur, gret, end_ts, wret, err, trace>>

\* a deadline that is set anew at every pass of the loop
WaitDeadlineMoving == now + step
\* the deadline the timeout test compares the clock with
WaitDeadline == end_ts

\* now = time.time(); if now >= end_ts: return;
\* time.sleep(step if (end_ts-now) > step else (end_ts-now))
w_time ==
    /\ pc = "w_time"
    /\ IF now >= WaitDeadline
       THEN /\ pc' = wret
            /\ obs' = [obs EXCEPT !.exit = "timeout"]
            /\ UNCHANGED dur
       ELSE /\ pc' = "w_sleep"
            /\ dur' = IF (WaitDeadline - now) > step THEN step ELSE WaitDeadline - now
            /\ obs' = [obs EXCEPT !.br = "run",
                                  !.since = @ + (IF skip_wait THEN 1 ELSE 0)]
    /\ UNCHANGED <<progVars, variables, flagVars, restart_requested, envVars, now,
                   stack, cur, gret, end_ts, wret, err, trace>>

\* time.sleep(dur) ends
w_sleep ==
    /\ pc = "w_sleep"
    /\ now + dur <= MaxSlices * step
    /\ now' = now + dur
    /\ pc' = "w_poll"
    /\ obs' = IF obs.br = "pause" THEN obs ELSE [obs EXCEPT !.active = @ + dur]
    /\ UNCHANGED <<progVars, variables, flagVars, restart_requested, envVars,
                   stack, cur, gret, waitVars, err, trace>>

-----------------------------------------------------------------------------
(* _pause_gate *)

\* a gate that tests nothing
GateOpenAlways == TRUE
\* the loop condition, negated: the gate lets the worker through
GateOpen == ~paused

\* where the worker goes on after the gate: into _exec_node's dispatch, from a
\* handler's own gate on to _exec_node (whose first statement is the gate again),
\* or, in foreach, to the binding of the element
AfterGate == CASE gret = "exec" -> "dispatch"
               [] gret = "pre"  -> "gate"
               [] gret = "elem" -> "bind"
               [] gret \in {"ve_a", "ve_b"} -> "ve_skip"

\* while self.paused: self._poll_hotkeys_inline(); time.sleep(0.05) ...
_pause_gate ==
    /\ pc = "gate"
    /\ IF GateOpen
       THEN /\ pc' = AfterGate
            /\ gret' = IF gret = "pre" THEN "exec" ELSE gret
            /\ UNCHANGED flagVars
       ELSE /\ pc' = "gate_sleep"
            /\ skip_wait' = PollSkip
            /\ paused' = PollPaused
            /\ _last_ctrlspace' = PollLast
            /\ UNCHANGED gret
    /\ UNCHANGED <<progVars, variables, restart_requested, envVars, now, stack, cur,
                   waitVars, err, trace, obs>>

\* ... the sleep ends; if PAUSE_TOGGLE_EVENT.is_set(): clear it, toggle paused
gate_sleep ==
    /\ pc = "gate_sleep"
    /\ now + step <= MaxSlices * step
    /\ now' = now + step
    /\ pc' = "gate"
    /\ IF bridge /\ PAUSE_TOGGLE_EVENT
       THEN PAUSE_TOGGLE_EVENT' = FALSE /\ paused' = ~paused
       ELSE UNCHANGED <<PAUSE_TOGGLE_EVENT, paused>>
    /\ UNCHANGED <<progVars, variables, skip_wait, _last_ctrlspace, restart_requested,

                   keyboard, instances, hotkeys, typing, extnode, runner, keyN, keySpace, bridge, SKIP_EVENT, voice, stack, cur,
                   gret, waitVars, err, trace, obs>>

-----------------------------------------------------------------------------
(* _delays *)

\* random.uniform(0, int(dm)/1000.0), then int(jitter*1000): sample points of 0..dm
Jitter(dm) == IF dm <= 0 THEN {0} ELSE {0, dm \div 2, dm}

\* df = node.get("delay_fixed"); if df: try: self._sleep_ms_interruptible(int(df))
delays_fixed ==
    /\ pc = "delays"
    /\ LET df == NodeGet(cur, "delay_fixed", "")
           r == IntOfText(df)
       IN IF df # "" /\ r.ok
          THEN EnterWait(r.val.n, "delays_dm")
          ELSE pc' = "delays_dm" /\ UNCHANGED <<waitVars, obs>>
    /\ UNCHANGED <<progVars, variables, flagVars, restart_requested, envVars, now,
                   stack, cur, gret, err, trace>>

\* dm = node.get("delay_ms"); if dm: jitter = random.uniform(0, int(dm)/1000.0) ...
delays_jitter ==
    /\ pc = "delays_dm"
    /\ LET dm == NodeGet(cur, "delay_ms", "")
           r == IntOfText(dm)
       IN IF dm # "" /\ r.ok
          THEN \E j \in Jitter(r.val.n) : EnterWait(j, "next")
          ELSE pc' = "next" /\ UNCHANGED <<waitVars, obs>>
    /\ UNCHANGED <<progVars, variables, flagVars, restart_requested, envVars, now,
                   stack, cur, gret, err, trace>>

-----------------------------------------------------------------------------
(* run and _exec_node *)

\* run(): for node in list(self.tree): skip func nodes and comments, _exec_node(node)
run ==
    /\ pc = "next"
    /\ Top.kind = "run"
    /\ IF Top.i > Len(Top.body)
       THEN /\ pc' = "done"
            /\ UNCHANGED <<stack, cur, gret>>
       ELSE LET node == Top.body[Top.i]
            IN /\ stack' = SetTop([Top EXCEPT !.i = @ + 1])
               /\ IF lower(node.tag) \in {"func", ""}
                  THEN pc' = "next" /\ UNCHANGED <<cur, gret>>
                  ELSE pc' = "gate" /\ cur' = node /\ gret' = "exec"
    /\ UNCHANGED <<progVars, variables, flagVars, restart_requested, envVars, now,
                   waitVars, err, trace, obs>>

\* _exec_node after its gate: the branch for tag t is taken
Enter(t) ==
    /\ pc = "dispatch"
    /\ lower(cur.tag) = t

\* a dispatcher that logs a handler's exception and goes on to the next node
FatalCaught(e) ==
    /\ pc' = "next"
    /\ err' = e

\* a handler raises: nothing in run() or _exec_node catches it
Fatal(e) ==
    /\ pc' = "error"
    /\ err' = e

ReservedSet == {"delay_fixed", "delay_ms"}

RECURSIVE SetAttrsSkipRaising(_, _)
\* a set that stores nothing for an attribute whose evaluation raises
SetAttrsSkipRaising(attrs, vs) ==
    IF attrs = <<>> THEN vs
    ELSE LET a == Head(attrs)
             r == _safe_eval(_substitute_vars(a.v, vs), vs)
         IN IF a.k \in ReservedSet \/ ~r.ok THEN SetAttrsSkipRaising(Tail(attrs), vs)
            ELSE SetAttrsSkipRaising(Tail(attrs), Put(vs, a.k, r.val))

RECURSIVE SetAttrs(_, _)
\* handle_set's loop over node.attrib.items()
SetAttrs(attrs, vs) ==
    IF attrs = <<>> THEN vs
    ELSE LET a == Head(attrs)
             expr == _substitute_vars(a.v, vs)
             r == _safe_eval(expr, vs)
             val == IF r.ok THEN r.val ELSE StrV(expr)
         IN IF a.k \in ReservedSet THEN SetAttrs(Tail(attrs), vs)
            ELSE SetAttrs(Tail(attrs), Put(vs, a.k, val))

handle_set ==
    /\ Enter("set")
    /\ trace' = Append(trace, cur.id)
    /\ variables' = SetAttrs(cur.attrs, variables)
    /\ pc' = "delays"
    /\ UNCHANGED <<progVars, flagVars, restart_requested, envVars, now, stack, cur,
                   gret, waitVars, err, obs>>

\* handle_wait: ms = int(node.get("ms","0")); self._sleep_ms_interruptible(ms)
handle_wait ==
    /\ Enter("wait")
    /\ trace' = Append(trace, cur.id)
    /\ LET r == IntOfText(NodeGet(cur, "ms", "0"))
       IN IF r.ok
          THEN EnterWait(r.val.n, "next") /\ UNCHANGED err
          ELSE Fatal("ValueError") /\ UNCHANGED <<waitVars, obs>>
    /\ UNCHANGED <<progVars, variables, flagVars, restart_requested, envVars, now,
                   stack, cur, gret>>

\* the tags of the model's scripts that no branch of _exec_node names
Unrecognized == {"note", "else", "include", ""}

\* a dispatcher that rejects a node it has no handler for
handle_func_raises ==
    /\ pc = "dispatch"
    /\ lower(cur.tag) \in {"func"} \cup Unrecognized
    /\ trace' = Append(trace, cur.id)
    /\ Fatal("ValueError")
    /\ UNCHANGED <<progVars, variables, flagVars, restart_requested, envVars, now,
                   stack, cur, gret, waitVars, obs>>

\* handle_func: pass, and the final `else: pass` of _exec_node
handle_func ==
    /\ pc = "dispatch"
    /\ lower(cur.tag) \in {"func"} \cup Unrecognized
    /\ trace' = Append(trace, cur.id)
    /\ pc' = "next"
    /\ UNCHANGED <<progVars, variables, flagVars, restart_requested, envVars, now,
                   stack, cur, gret, waitVars, err, obs>>

-----------------------------------------------------------------------------
(* handle_check *)

CheckReserved == {"delay_fixed", "delay_ms", "tol", "comment"}

\* the comparison with < for <=
CheckTolStrict(expected_raw, actual, tol, vs) ==
    LET e == _safe_eval(expected_raw, vs)
        ef == IF e.ok THEN PyFloat(e.val) ELSE Raise
        af == PyFloat(actual)
    IN ef.ok /\ af.ok /\ AbsI(ef.val.n - af.val.n) < tol

\* with tol: exp = float(_safe_eval(expected_raw)); act = float(actual);
\* ok = abs(exp-act) <= tol, and ok = False on any exception
CheckTol(expected_raw, actual, tol, vs) ==
    LET e == _safe_eval(expected_raw, vs)
        ef == IF e.ok THEN PyFloat(e.val) ELSE Raise
        af == PyFloat(actual)
    IN ef.ok /\ af.ok /\ AbsI(ef.val.n - af.val.n) <= tol

\* without tol: ok = str(actual) == expected_raw
CheckStr(expected_raw, actual) == PyStr(actual) = expected_raw

\* the line handle_check logs before it decides to raise
CheckLine(k, ok) == "CHECK " \o k \o (IF ok THEN " -> True" ELSE " -> False")

RECURSIVE CheckAttrs(_, _, _, _)
\* handle_check's loop: the lines logged, and whether it ran to the end
CheckAttrs(attrs, vs, hasTol, tol) ==
    IF attrs = <<>> THEN [ok |-> TRUE, lines |-> <<>>]
    ELSE LET a == Head(attrs)
             expected_raw == _substitute_vars(a.v, vs)
             actual == Get(vs, a.k)
             ok == IF hasTol THEN CheckTol(expected_raw, actual, tol, vs)
                   ELSE CheckStr(expected_raw, actual)
             rest == CheckAttrs(Tail(attrs), vs, hasTol, tol)
         IN IF a.k \in CheckReserved THEN rest
            ELSE IF ~ok THEN [ok |-> FALSE, lines |-> <<CheckLine(a.k, FALSE)>>]
            ELSE [ok |-> rest.ok, lines |-> <<CheckLine(a.k, TRUE)>> \o rest.lines]

\* tol = float(node.get("tol")) if node.get("tol") else None
handle_check ==
    /\ Enter("check")
    /\ LET tolraw == NodeGet(cur, "tol", "")
           t == IF tolraw # "" THEN FloatOfText(tolraw) ELSE Ok(FloatV(0))
           r == CheckAttrs(cur.attrs, variables, tolraw # "", t.val.n)
       IN IF ~t.ok
          THEN Fatal("ValueError") /\ trace' = Append(trace, cur.id)
          ELSE /\ trace' = Append(trace, cur.id) \o r.lines
               /\ IF r.ok THEN pc' = "delays" /\ UNCHANGED err
                  ELSE Fatal("AssertionError")
    /\ UNCHANGED <<progVars, variables, flagVars, restart_requested, envVars, now,
                   stack, cur, gret, waitVars, obs>>

-----------------------------------------------------------------------------
(* handle_repeat *)

Max0(n) == IF n < 0 THEN 0 ELSE n

\* the two attributes read in the other order: count or times or "0"
RepeatExprCountFirst(node) ==
    IF NodeGet(node, "count", "") # "" THEN AttrToks(node, "count")
    ELSE IF NodeGet(node, "times", "") # "" THEN AttrToks(node, "times")
    ELSE <<Txt("0")>>

\* expr = node.get("times") or node.get("count") or "0"
RepeatExpr(node) ==
    IF NodeGet(node, "times", "") # "" THEN AttrToks(node, "times")
    ELSE IF NodeGet(node, "count", "") # "" THEN AttrToks(node, "count")
    ELSE <<Txt("0")>>

\* try: n = int(_safe_eval(_substitute_vars(expr, ...), ...)); except: n = 0;
\* n = max(0, n)
RepeatTimes(node, vs) ==
    LET e == _safe_eval(_substitute_vars(RepeatExpr(node), vs), vs)
        n == IF e.ok THEN PyInt(e.val) ELSE Raise
    IN IF n.ok THEN Max0(n.val.n) ELSE 0

handle_repeat ==
    /\ Enter("repeat")
    /\ trace' = Append(trace, cur.id)
    /\ stack' = Append(stack, Frame("repeat", cur, cur.kids,
                                    RepeatTimes(cur, variables), <<>>))
    /\ pc' = "next"
    /\ UNCHANGED <<progVars, variables, flagVars, restart_requested, envVars, now,
                   cur, gret, waitVars, err, obs>>

\* a loop that evaluates the count again before every pass
RepeatBoundAgain(fr, vs) == RepeatTimes(fr.node, vs)
\* range(n): the number of passes is the n computed before the first pass
RepeatBound(fr, vs) == fr.n

\* for _ in range(n): for child in list(node): self._pause_gate();
\* self._exec_node(child);  then self._delays(node)
repeat_loop ==
    /\ pc = "next"
    /\ Top.kind = "repeat"
    /\ IF Top.k >= RepeatBound(Top, variables)
       THEN /\ stack' = Pop
            /\ cur' = Top.node
            /\ pc' = "delays"
            /\ UNCHANGED gret
       ELSE IF Top.i > Len(Top.body)
       THEN /\ stack' = SetTop([Top EXCEPT !.k = @ + 1, !.i = 1])
            /\ pc' = "next"
            /\ UNCHANGED <<cur, gret>>
       ELSE /\ stack' = SetTop([Top EXCEPT !.i = @ + 1])
            /\ cur' = Top.body[Top.i]
            /\ pc' = "gate"
            /\ gret' = "pre"
    /\ UNCHANGED <<progVars, variables, flagVars, restart_requested, envVars, now,
                   waitVars, err, trace, obs>>

-----------------------------------------------------------------------------
(* handle_foreach *)

\* the permutations random.shuffle(items) can leave
Shuffles(items) ==
    {[i \in 1..Len(items) |-> items[p[i]]] :
        p \in {q \in [1..Len(items) -> 1..Len(items)] :
                  \A i, j \in 1..Len(items) : q[i] = q[j] => i = j}}

\* node.get(k) or default
GetOr(node, k, default) ==
    IF NodeGet(node, k, "") # "" THEN NodeGet(node, k, "") ELSE default

\* the list: an entry of the store named by the attribute (a string is split into
\* its lines), else the lines of the substituted attribute; list(data) raises on a
\* value that is not iterable
ForeachItems(node, vs) ==
    LET list_attr == GetOr(node, "list", "")
        raw == IF HasAttr(node, "list") THEN _substitute_vars(AttrToks(node, "list"), vs)
               ELSE ""
    IN IF list_attr \in DOMAIN vs
       THEN CASE vs[list_attr].t = "str"  -> Ok(ListV(SplitLines(vs[list_attr].s)))
              [] vs[list_attr].t = "list" -> Ok(vs[list_attr])
              [] vs[list_attr].t \in {"int", "float", "bool", "none"} -> Raise
       ELSE Ok(ListV(SplitLines(raw)))

\* a foreach that never tests the name before its loop
ForeachUnknownNever(name) == FALSE

\* if func_name not in self.functions: raise
ForeachUnknown(name) == name \notin DOMAIN functions

handle_foreach ==
    /\ Enter("foreach")
    /\ trace' = Append(trace, cur.id)
    /\ LET func_name == GetOr(cur, "do", "")
           data == ForeachItems(cur, variables)
           shuffle == NodeGet(cur, "random_shuffle", "0") \in {"1", "true", "yes"}
       IN IF func_name = ""
          THEN pc' = "next" /\ UNCHANGED <<stack, err>>
          ELSE IF ~data.ok
          THEN Fatal("TypeError") /\ UNCHANGED stack
          ELSE IF ForeachUnknown(func_name)
          THEN Fatal("ValueError") /\ UNCHANGED stack
          ELSE /\ \E items \in (IF shuffle THEN Shuffles(data.val.l) ELSE {data.val.l}) :
                     stack' = Append(stack, [Frame("foreach", cur, <<>>, 0, items)
                                               EXCEPT !.i = 0])
               /\ pc' = "next"
               /\ UNCHANGED err
    /\ UNCHANGED <<progVars, variables, flagVars, restart_requested, envVars, now,
                   cur, gret, waitVars, obs>>

\* for idx, val in enumerate(items): self._pause_gate() ...
\*     for child in list(func): self._pause_gate(); self._exec_node(child)
\* self._delays(node)
foreach_loop ==
    /\ pc = "next"
    /\ Top.kind = "foreach"
    /\ IF Top.i = 0 /\ Top.k >= Len(Top.items)
       THEN /\ stack' = Pop
            /\ cur' = Top.node
            /\ pc' = "delays"
            /\ UNCHANGED gret
       ELSE IF Top.i = 0
       THEN /\ pc' = "gate"
            /\ gret' = "elem"
            /\ UNCHANGED <<stack, cur>>
       ELSE IF Top.i > Len(Top.body)
       THEN /\ stack' = SetTop([Top EXCEPT !.k = @ + 1, !.i = 0])
            /\ pc' = "next"
            /\ UNCHANGED <<cur, gret>>
       ELSE /\ stack' = SetTop([Top EXCEPT !.i = @ + 1])
            /\ cur' = Top.body[Top.i]
            /\ pc' = "gate"
            /\ gret' = "pre"
    /\ UNCHANGED <<progVars, variables, flagVars, restart_requested, envVars, now,
                   waitVars, err, trace, obs>>

\* the binding with index counted from 1
ForeachBindOneBased(vs, var_name, val, idx) ==
    Put(Put(Put(vs, var_name, StrV(val)), "index", IntV(idx + 1)), "arg0", StrV(val))

\* self.variables[var_name] = val; self.variables["index"] = idx;
\* self.variables["arg0"] = val
ForeachBind(vs, var_name, val, idx) ==
    Put(Put(Put(vs, var_name, StrV(val)), "index", IntV(idx)), "arg0", StrV(val))

\* ... and func = self.functions[func_name]
foreach_bind ==
    /\ pc = "bind"
    /\ LET func_name == GetOr(Top.node, "do", "")
           var_name == GetOr(Top.node, "var", "item")
       IN /\ variables' = ForeachBind(variables, var_name, Top.items[Top.k + 1], Top.k)
          /\ IF func_name \in DOMAIN functions
             THEN /\ stack' = SetTop([Top EXCEPT !.body = functions[func_name].kids,
                                                 !.i = 1])
                  /\ pc' = "next"
                  /\ UNCHANGED err
             ELSE Fatal("KeyError") /\ UNCHANGED stack
    /\ UNCHANGED <<progVars, flagVars, restart_requested, envVars, now, cur, gret,
                   waitVars, trace, obs>>

-----------------------------------------------------------------------------
(* handle_call *)

\* k.startswith("arg"), on the attribute names the model's scripts use
StartsWithArg(k) ==
    CASE k \in {"arg0", "arg1", "args"} -> TRUE
      [] k \in {"name", "delay_fixed", "delay_ms", "comment", "x", "n"} -> FALSE

RECURSIVE BindArgsEvaluated(_, _)
\* a binding that stores what the substituted text evaluates to
BindArgsEvaluated(attrs, vs) ==
    IF attrs = <<>> THEN vs
    ELSE LET a == Head(attrs)
             expr == _substitute_vars(a.v, vs)
             r == _safe_eval(expr, vs)
         IN IF StartsWithArg(a.k)
            THEN BindArgsEvaluated(Tail(attrs),
                                   Put(vs, a.k, IF r.ok THEN r.val ELSE StrV(expr)))
            ELSE BindArgsEvaluated(Tail(attrs), vs)

RECURSIVE BindArgs(_, _)
\* for k,v in node.attrib.items(): if k.startswith("arg"):
\*     self.variables[k] = _substitute_vars(v, self.variables)
BindArgs(attrs, vs) ==
    IF attrs = <<>> THEN vs
    ELSE LET a == Head(attrs)
         IN IF StartsWithArg(a.k)
            THEN BindArgs(Tail(attrs), Put(vs, a.k, StrV(_substitute_vars(a.v, vs))))
            ELSE BindArgs(Tail(attrs), vs)

\* the test without its lookup in the table: if not name: raise
CallUnknownNoLookup(name) == name = ""

\* if not name or name not in self.functions: raise
CallUnknown(name) == name = "" \/ name \notin DOMAIN functions

handle_call ==
    /\ Enter("call")
    /\ trace' = Append(trace, cur.id)
    /\ LET name == NodeGet(cur, "name", "")
       IN IF CallUnknown(name)
          THEN Fatal("ValueError") /\ UNCHANGED <<variables, stack>>
          ELSE /\ variables' = BindArgs(cur.attrs, variables)
               /\ IF name \in DOMAIN functions
                  THEN /\ stack' = Append(stack, Frame("call", cur, functions[name].kids,
                                                       0, <<>>))
                       /\ pc' = "next"
                       /\ UNCHANGED err
                  ELSE Fatal("KeyError") /\ UNCHANGED stack
    /\ UNCHANGED <<progVars, flagVars, restart_requested, envVars, now, cur, gret,
                   waitVars, obs>>

\* for child in list(func): self._exec_node(child);  then self._delays(node)
call_loop ==
    /\ pc = "next"
    /\ Top.kind = "call"
    /\ IF Top.i > Len(Top.body)
       THEN /\ stack' = Pop
            /\ cur' = Top.node
            /\ pc' = "delays"
            /\ UNCHANGED gret
       ELSE /\ stack' = SetTop([Top EXCEPT !.i = @ + 1])
            /\ cur' = Top.body[Top.i]
            /\ pc' = "gate"
            /\ gret' = "exec"
    /\ UNCHANGED <<progVars, variables, flagVars, restart_requested, envVars, now,
                   waitVars, err, trace, obs>>

-----------------------------------------------------------------------------
(* Directives that call a collaborator: pyautogui, subprocess, an imported *)
(* module.  What the collaborator does is chosen freely: it returns, or it  *)
(* raises.                                                                  *)

\* _substitute_vars(node.get(k), self.variables)
SubstAttr(node, k, vs) ==
    IF HasAttr(node, k) THEN _substitute_vars(AttrToks(node, k), vs) ELSE ""

\* the exception a collaborator raises
CollaboratorError == "Exception"
\* what a call of a collaborator can do
Outcomes == {"returns", "raises"}

\* handle_type: _type_text(text, mode=mode), not in a try; then _delays
handle_type ==
    /\ Enter("type")
    /\ trace' = Append(trace, cur.id)
    /\ \E out \in Outcomes :
          IF out = "raises" THEN Fatal(CollaboratorError)
          ELSE pc' = "delays" /\ UNCHANGED err
    /\ UNCHANGED <<progVars, variables, flagVars, restart_requested, envVars, now,
                   stack, cur, gret, waitVars, obs>>

\* int(float(_safe_eval(raw, self.variables)))
CoordEval(raw, vs) ==
    LET r == _safe_eval(raw, vs)
        f == IF r.ok THEN PyFloat(r.val) ELSE Raise
    IN IF f.ok THEN PyInt(f.val) ELSE Raise

\* int(float(raw))
CoordRaw(raw) ==
    LET f == FloatOfText(raw) IN IF f.ok THEN PyInt(f.val) ELSE Raise

\* handle_click without area: whether x and y are read, by either of the two ways
ClickPoint(node, vs) ==
    LET x_raw == SubstAttr(node, "x", vs)
        y_raw == SubstAttr(node, "y", vs)
    IN \/ CoordEval(x_raw, vs).ok /\ CoordEval(y_raw, vs).ok
       \/ CoordRaw(x_raw).ok /\ CoordRaw(y_raw).ok

\* handle_click, for a node with x and y: _move_then_click either clicks, at once
\* or in a retry after a FailSafeException, or re-raises what pyautogui raised
handle_click ==
    /\ Enter("click")
    /\ trace' = Append(trace, cur.id)
    /\ IF ~ClickPoint(cur, variables) THEN Fatal("ValueError")
       ELSE \E out \in Outcomes :
               IF out = "raises" THEN Fatal(CollaboratorError)
               ELSE pc' = "delays" /\ UNCHANGED err
    /\ UNCHANGED <<progVars, variables, flagVars, restart_requested, envVars, now,
                   stack, cur, gret, waitVars, obs>>

\* the texts a command prints
Stdouts == {"", "abc"}

\* handle_shell: subprocess.run in a try; its stdout goes to output_var, as text
\* or as the list of its non-blank lines; an exception is logged
handle_shell ==
    /\ Enter("shell")
    /\ trace' = Append(trace, cur.id)
    /\ \E out \in Outcomes, stdout \in Stdouts :
          IF out = "raises" \/ ~HasAttr(cur, "output_var")
          THEN UNCHANGED variables
          ELSE variables' =
                 Put(variables, NodeGet(cur, "output_var", ""),
                     IF lower(NodeGet(cur, "output_format", "text")) = "list"
                     THEN ListV(IF stdout = "" THEN <<>> ELSE <<stdout>>)
                     ELSE StrV(stdout))
    /\ pc' = "delays"
    /\ UNCHANGED <<progVars, flagVars, restart_requested, envVars, now, stack, cur,
                   gret, waitVars, err, obs>>

\* what the method of an extnode returns
ExtResults == {NoneV, StrV("abc")}

\* a lookup that never finds its key
ExtCachedNever(cache, key) == FALSE
\* cache.get(key) is not None
ExtCached(cache, key) == key \in DOMAIN cache

\* where handle_extnode can raise: importlib.import_module, getattr(mod, cls_name)
\* or cls(), getattr(inst, method) or the call itself
ExtFailures == {"none", "import", "construct", "call"}

\* mod = self._extmodule_cache.get(mod_name); if mod is None: import and store
ExtModule(e, mod_name, fail) ==
    IF ExtCached(e._extmodule_cache, mod_name) THEN [e |-> e, ok |-> TRUE]
    ELSE IF fail = "import" THEN [e |-> e, ok |-> FALSE]
    ELSE [e |-> [e EXCEPT !._extmodule_cache =
                              (mod_name :> (Len(e.imports) + 1)) @@ @,
                          !.imports = Append(@, mod_name)],
          ok |-> TRUE]

\* if cls_name: inst = self._extnode_cache.get(key); if inst is None: cls(), store;
\* call_target = getattr(inst, method)   else: call_target = getattr(mod, method)
ExtTarget(e, mod_name, cls_name, fail) ==
    LET key == <<mod_name, cls_name>>
    IN IF cls_name = ""
       THEN [e |-> e, ok |-> TRUE, target |-> <<"module", e._extmodule_cache[mod_name]>>]
       ELSE IF ExtCached(e._extnode_cache, key)
       THEN [e |-> e, ok |-> TRUE, target |-> <<"object", e._extnode_cache[key]>>]
       ELSE IF fail = "construct" THEN [e |-> e, ok |-> FALSE, target |-> <<>>]
       ELSE [e |-> [e EXCEPT !._extnode_cache = (key :> (Len(e.objects) + 1)) @@ @,
                             !.objects = Append(@, key)],
             ok |-> TRUE, target |-> <<"object", Len(e.objects) + 1>>]

\* handle_extnode: import_module, getattr and the call are in no try; the module
\* and the object come from the caches when they are there; the result goes to
\* output_var, "" for None
handle_extnode ==
    /\ Enter("extnode")
    /\ trace' = Append(trace, cur.id)
    /\ IF NodeGet(cur, "module", "") = "" \/ NodeGet(cur, "method", "") = ""
       THEN Fatal("RuntimeError") /\ UNCHANGED <<variables, extnode>>
       ELSE \E fail \in ExtFailures, res \in ExtResults :
               LET m == ExtModule(extnode, NodeGet(cur, "module", ""), fail)
                   t == IF m.ok
                        THEN ExtTarget(m.e, NodeGet(cur, "module", ""),
                                       NodeGet(cur, "class", ""), fail)
                        ELSE [e |-> m.e, ok |-> FALSE, target |-> <<>>]
                   call == [node |-> cur.id, module |-> NodeGet(cur, "module", ""),
                            class |-> NodeGet(cur, "class", ""),
                            method |-> NodeGet(cur, "method", ""),
                            target |-> t.target]
               IN IF ~t.ok
                  THEN /\ Fatal(CollaboratorError)
                       /\ extnode' = t.e
                       /\ UNCHANGED variables
                  ELSE IF fail = "call"
                  THEN /\ Fatal(CollaboratorError)
                       /\ extnode' = [t.e EXCEPT !.calls = Append(@, call)]
                       /\ UNCHANGED variables
                  ELSE /\ pc' = "delays"
                       /\ extnode' = [t.e EXCEPT !.calls = Append(@, call)]
                       /\ variables' =
                            IF NodeGet(cur, "output_var", "") # ""
                            THEN Put(variables, NodeGet(cur, "output_var", ""),
                                     IF res = NoneV THEN StrV("") ELSE res)
                            ELSE variables
                       /\ UNCHANGED err
    /\ UNCHANGED <<progVars, flagVars, restart_requested, keyboard, instances,
                   hotkeys, typing, runner, keyN, keySpace, bridge, SKIP_EVENT,
                   PAUSE_TOGGLE_EVENT, voice, now, stack, cur, gret, waitVars, obs>>

-----------------------------------------------------------------------------
(* handle_if *)

\* conditions whose evaluation looks a name up: a variable, a math function
NameTexts == {"x > 0", "not x", "x or True", "sqrt(4)", "max(1, 2)", "pi"}
\* conditions with a name in an operand that `or` / `and` never evaluate
SkippedNameTexts == {"True or x", "1 or sqrt(4)", "False and x", "0 and x"}

\* text.strip(), on the texts the model's scripts use as conditions
strip(text) ==
    CASE text \in IntTexts \cup FloatTexts \cup StrTexts \cup ListTexts \cup Idents
                  \cup {"", "1.0.0", "3 x"} \cup NameTexts \cup SkippedNameTexts
              -> text
      [] text = " " -> ""
      [] text \in {"l1", "l2", "l3", "l4", "l5", "(empty)"} -> text
      [] text = " l1 " -> "l1"
      [] text = "l2 " -> "l2"
      [] text = " l3" -> "l3"
      [] text = " l4 " -> "l4"
      [] text = "l5 " -> "l5"
      [] text = " (empty) " -> "(empty)"

\* an evaluation that finds the names of the Variable Store
eval_in_store(expr) ==
    IF expr \in DOMAIN variables THEN Ok(variables[expr])
    ELSE IF expr \in {"True", "1"} THEN Ok(BoolV(TRUE))
    ELSE Raise

\* eval(expr, {"__builtins__": {}}, {}): no name but the keywords True and False;
\* a name that is looked up raises NameError, `or` and `and` leave their second
\* operand alone when the first decides
eval_empty(expr) ==
    CASE expr \in IntTexts   -> Ok(IntV(IntLitVal(expr)))
      [] expr \in NameTexts  -> Raise
      [] expr \in {"True or x"} -> Ok(BoolV(TRUE))
      [] expr \in {"1 or sqrt(4)"} -> Ok(IntV(1))
      [] expr \in {"False and x"} -> Ok(BoolV(FALSE))
      [] expr \in {"0 and x"} -> Ok(IntV(0))
      [] expr \in FloatTexts -> Ok(FloatV(FloatLit[expr]))
      [] expr \in StrTexts   -> Ok(StrV(StrLit[expr]))
      [] expr \in ListTexts  -> Ok(ListV(ListLitVal(expr)))
      [] expr = "True"       -> Ok(BoolV(TRUE))
      [] expr = "False"      -> Ok(BoolV(FALSE))
      [] expr \in (Idents \ {"True", "False"}) \cup BadTexts -> Raise

\* bool(v)
PyBool(v) ==
    CASE v.t \in {"int", "float", "bool"} -> v.n # 0
      [] v.t = "str"  -> v.s # ""
      [] v.t = "list" -> v.l # <<>>
      [] v.t = "none" -> FALSE

\* res = bool(eval(cond_expanded.strip() or "False", ...)); except: res = False
IfCond(node, vs) ==
    LET cond_expanded == IF HasAttr(node, "cond")
                         THEN _substitute_vars(AttrToks(node, "cond"), vs) ELSE ""
        text == IF strip(cond_expanded) = "" THEN "False" ELSE strip(cond_expanded)
        r == eval_empty(text)
    IN IF r.ok THEN PyBool(r.val) ELSE FALSE

\* an if that has no else branch
IfSelectedThenOnly(res, in_else) == res /\ ~in_else
\* if (res and not in_else) or ((not res) and in_else)
IfSelected(res, in_else) == (res /\ ~in_else) \/ (~res /\ in_else)

\* the frame keeps res in n (1 or 0) and in_else in k (1 or 0)
handle_if ==
    /\ Enter("if")
    /\ trace' = Append(trace, cur.id)
    /\ stack' = Append(stack, Frame("if", cur, cur.kids,
                                    IF IfCond(cur, variables) THEN 1 ELSE 0, <<>>))
    /\ pc' = "next"
    /\ UNCHANGED <<progVars, variables, flagVars, restart_requested, envVars, now,
                   cur, gret, waitVars, err, obs>>

\* for child in list(node): an else marker sets in_else; a child of the selected
\* branch goes to _exec_node;  _exec_node returns after handle_if, without _delays
if_loop ==
    /\ pc = "next"
    /\ Top.kind = "if"
    /\ IF Top.i > Len(Top.body)
       THEN /\ stack' = Pop
            /\ pc' = "next"
            /\ UNCHANGED <<cur, gret>>
       ELSE LET child == Top.body[Top.i]
            IN IF lower(child.tag) = "else"
               THEN /\ stack' = SetTop([Top EXCEPT !.i = @ + 1, !.k = 1])
                    /\ pc' = "next"
                    /\ UNCHANGED <<cur, gret>>
               ELSE /\ stack' = SetTop([Top EXCEPT !.i = @ + 1])
                    /\ IF IfSelected(Top.n = 1, Top.k = 1)
                       THEN /\ cur' = child
                            /\ pc' = "gate"
                            /\ gret' = "exec"
                       ELSE /\ pc' = "next"
                            /\ UNCHANGED <<cur, gret>>
    /\ UNCHANGED <<progVars, variables, flagVars, restart_requested, envVars, now,
                   waitVars, err, trace, obs>>

-----------------------------------------------------------------------------
(* handle_voice_event *)

\* _ensure_voice, as the value it leaves in self.voice
_ensure_voice(vs) ==
    LET flag_xml == "VOICE_ENABLED" \in DOMAIN vs
                    /\ PyStr(vs["VOICE_ENABLED"]) \in {"1", "true", "yes", "True"}
        flag_env == voice = "ready_env"
    IN IF voice = "on" THEN "on"
       ELSE IF (flag_xml \/ flag_env) /\ voice \in {"ready", "ready_env"} THEN "on"
       ELSE voice

\* self.variables[out] = text; self.variables[out+"_type"] = typ
VoiceOut(vs, node, text, typ) ==
    LET out == GetOr(node, "out", "VOICE_TEXT")
    IN Put(Put(vs, out, StrV(text)), out \o "_type", StrV(typ))

\* a voice_event loop that breaks on skip and leaves the flag set
VoiceSkipKeep == TRUE
\* the value `self.skip_wait = False` stores in the voice_event loops
VoiceSkipClear == FALSE

handle_voice_event ==
    /\ Enter("voice_event")
    /\ trace' = Append(trace, cur.id)
    /\ LET wait_ms == IntOfText(NodeGet(cur, "wait", "0"))
           v == _ensure_voice(variables)
       IN /\ voice' = v
          /\ IF ~wait_ms.ok
             THEN Fatal("ValueError") /\ UNCHANGED <<variables, gret, end_ts>>
             ELSE IF v # "on"
             THEN /\ variables' = VoiceOut(variables, cur, "", "")
                  /\ pc' = "delays"
                  /\ UNCHANGED <<err, gret, end_ts>>
             ELSE \* deadline = time.time() + wait_ms/1000.0 if wait_ms else None;
                  \* hasattr(self.voice, "get_event") picks the loop
                  /\ end_ts' = IF wait_ms.val.n # 0 THEN now + wait_ms.val.n ELSE -1
                  /\ \E loop \in {"ve_a", "ve_b"} : gret' = loop
                  /\ pc' = "gate"
                  /\ UNCHANGED <<err, variables>>
    /\ UNCHANGED <<progVars, flagVars, restart_requested,
                   keyboard, instances, hotkeys, typing, extnode, runner, keyN, keySpace,
                   bridge, SKIP_EVENT, PAUSE_TOGGLE_EVENT, now, stack, cur, dur, wret,
                   obs>>

\* if self.skip_wait: self.skip_wait = False; break
ve_skip ==
    /\ pc = "ve_skip"
    /\ IF skip_wait
       THEN /\ skip_wait' = VoiceSkipClear
            /\ variables' = VoiceOut(variables, cur, "", "")
            /\ pc' = "delays"
       ELSE /\ pc' = "ve_get"
            /\ UNCHANGED <<skip_wait, variables>>
    /\ UNCHANGED <<progVars, paused, _last_ctrlspace, restart_requested, envVars, now,
                   stack, cur, gret, waitVars, err, trace, obs>>

\* (node.get("type") or "any").lower()
VoiceWant(node) ==
    LET w == GetOr(node, "type", "any")
    IN CASE w \in {"any", "command", "query"} -> w
         [] w = "Command" -> "command"

\* the collaborator answers: get_event(timeout_ms=200) blocks up to 200 ms;
\* get_next_command / get_next_query return at once and the loop sleeps 50 ms
ve_get ==
    /\ pc = "ve_get"
    /\ \E ev \in {"none", "command", "query"} :
          LET matched == ev # "none" /\ VoiceWant(cur) \in {"any", ev}
              d == IF matched THEN 0 ELSE IF gret = "ve_a" THEN 4 * step ELSE step
              late == IF gret = "ve_a" THEN now + d > end_ts ELSE now > end_ts
          IN /\ now + d <= MaxSlices * step
             /\ IF matched
                THEN /\ variables' = VoiceOut(variables, cur, "hello", ev)
                     /\ pc' = "delays"
                     /\ UNCHANGED now
                ELSE IF end_ts # -1 /\ late
                THEN /\ variables' = VoiceOut(variables, cur, "", "")
                     /\ pc' = "delays"
                     /\ now' = IF gret = "ve_a" THEN now + d ELSE now
                ELSE /\ pc' = "gate"
                     /\ now' = now + d
                     /\ UNCHANGED variables
    /\ UNCHANGED <<progVars, flagVars, restart_requested, envVars, stack, cur, gret,
                   waitVars, err, trace, obs>>

\* what get_next_command / get_next_query hand over: nothing, or a heard text
VoiceTexts(v) == IF v = "on" THEN {"", "hello"} ELSE {""}

\* a voice_poll that stores only what was heard
VoicePollOutHeard(vs, node, cmd, query) ==
    LET c == IF cmd = "" THEN vs
             ELSE Put(vs, GetOr(node, "out_cmd", "VOICE_CMD"), StrV(cmd))
    IN IF query = "" THEN c
       ELSE Put(c, GetOr(node, "out_query", "VOICE_QUERY"), StrV(query))

\* self.variables[out_cmd] = cmd; self.variables[out_query] = query
VoicePollOut(vs, node, cmd, query) ==
    Put(Put(vs, GetOr(node, "out_cmd", "VOICE_CMD"), StrV(cmd)),
        GetOr(node, "out_query", "VOICE_QUERY"), StrV(query))

\* handle_voice_poll: cmd and query stay "" unless self.voice is set and has an
\* event; a command's payload may carry seconds
handle_voice_poll ==
    /\ Enter("voice_poll")
    /\ trace' = Append(trace, cur.id)
    /\ LET v == _ensure_voice(variables)
       IN /\ voice' = v
          /\ \E cmd \in VoiceTexts(v), query \in VoiceTexts(v) :
             \E seconds \in (IF cmd # "" THEN BOOLEAN ELSE {FALSE}) :
                variables' =
                    VoicePollOut(IF seconds
                                 THEN Put(variables,
                                          GetOr(cur, "out_cmd", "VOICE_CMD")
                                              \o "_seconds", IntV(5))
                                 ELSE variables,
                                 cur, cmd, query)
    /\ pc' = "delays"
    /\ UNCHANGED <<progVars, flagVars, restart_requested,
                   keyboard, instances, hotkeys, typing, extnode, runner, keyN, keySpace,
                   bridge, SKIP_EVENT, PAUSE_TOGGLE_EVENT, now, stack, cur, gret,
                   waitVars, err, obs>>

-----------------------------------------------------------------------------
(* The keys, and the events of voice.voice_daemon *)

press_n ==
    /\ keyboard /\ ~keyN
    /\ keyN' = TRUE
    /\ UNCHANGED <<progVars, variables, flagVars, restart_requested,
                   keyboard, instances, hotkeys, typing, extnode, runner,
                   keySpace, bridge, SKIP_EVENT, PAUSE_TOGGLE_EVENT, voice, now, pc,
                   stack, cur, gret, waitVars, err, trace, obs>>

release_n ==
    /\ keyN
    /\ keyN' = FALSE
    /\ UNCHANGED <<progVars, variables, flagVars, restart_requested,
                   keyboard, instances, hotkeys, typing, extnode, runner,
                   keySpace, bridge, SKIP_EVENT, PAUSE_TOGGLE_EVENT, voice, now, pc,
                   stack, cur, gret, waitVars, err, trace, obs>>

press_space ==
    /\ keyboard /\ ~keySpace
    /\ keySpace' = TRUE
    /\ UNCHANGED <<progVars, variables, flagVars, restart_requested,
                   keyboard, instances, hotkeys, typing, extnode, runner,
                   keyN, bridge, SKIP_EVENT, PAUSE_TOGGLE_EVENT, voice, now, pc,
                   stack, cur, gret, waitVars, err, trace, obs>>

release_space ==
    /\ keySpace
    /\ keySpace' = FALSE
    /\ UNCHANGED <<progVars, variables, flagVars, restart_requested,
                   keyboard, instances, hotkeys, typing, extnode, runner,
                   keyN, bridge, SKIP_EVENT, PAUSE_TOGGLE_EVENT, voice, now, pc,
                   stack, cur, gret, waitVars, err, trace, obs>>

set_SKIP_EVENT ==
    /\ bridge /\ ~SKIP_EVENT
    /\ SKIP_EVENT' = TRUE
    /\ UNCHANGED <<progVars, variables, flagVars, restart_requested,
                   keyboard, instances, hotkeys, typing, extnode, runner,
                   keyN, keySpace, bridge, PAUSE_TOGGLE_EVENT, voice, now, pc,
                   stack, cur, gret, waitVars, err, trace, obs>>

set_PAUSE_TOGGLE_EVENT ==
    /\ bridge /\ ~PAUSE_TOGGLE_EVENT
    /\ PAUSE_TOGGLE_EVENT' = TRUE
    /\ UNCHANGED <<progVars, variables, flagVars, restart_requested,
                   keyboard, instances, hotkeys, typing, extnode, runner,
                   keyN, keySpace, bridge, SKIP_EVENT, voice, now, pc,
                   stack, cur, gret, waitVars, err, trace, obs>>

-----------------------------------------------------------------------------
(* Scripts *)

\* <tag k="text"/>
Leaf(id, tag, k, text) == Node(id, tag, <<At(k, <<Txt(text)>>)>>, <<>>)

\* a scenario: a script, and for the directive it is about the number of passes
\* (n) or the elements (items) a run is expected to make
Scenario(name, top, n, items) ==
    [name |-> name, tree |-> top, n |-> n, items |-> items]

\* scripts of waits, run against the keys and the events
AsyncScenarios ==
    { Scenario("wait", <<Leaf("w1", "Wait", "ms", "120")>>, 0, <<>>),
      Scenario("delays",
               <<Node("s1", "set", <<At("x", <<Txt("1")>>),
                                     At("delay_fixed", <<Txt("50")>>),
                                     At("delay_ms", <<Txt("50")>>)>>, <<>>)>>, 0, <<>>),
      Scenario("voice",
               <<Node("v1", "voice_event", <<At("wait", <<Txt("100")>>),
                                             At("out", <<Txt("v")>>)>>, <<>>)>>,
               0, <<>>) }

\* the state after XMLProgram(xml_path) for script sc, before run()
Loaded(sc) ==
    /\ scen = sc
    /\ tree = sc.tree
    /\ functions = _load_xml(sc.tree)
    /\ variables = InitVariables
    /\ skip_wait = FALSE
    /\ paused = FALSE
    /\ _last_ctrlspace = FALSE
    /\ restart_requested = FALSE
    /\ keyN = FALSE
    /\ keySpace = FALSE
    /\ SKIP_EVENT = FALSE
    /\ PAUSE_TOGGLE_EVENT = FALSE
    /\ now = 0
    /\ pc = "next"
    /\ stack = <<Frame("run", NoNode, sc.tree, 0, <<>>)>>
    /\ cur = NoNode
    /\ gret = "exec"
    /\ end_ts = 0
    /\ dur = 0
    /\ wret = "next"
    /\ err = ""
    /\ trace = <<>>
    /\ obs = NoObs

InitAsync ==
    /\ \E sc \in AsyncScenarios : Loaded(sc)
    /\ keyboard = TRUE
    /\ hotkeys = NoHotkeys
    /\ instances = NoInstances
    /\ typing = NoTyping
    /\ extnode = NoExtnode
    /\ runner = NoRunner
    /\ bridge = TRUE
    /\ voice \in (IF scen.name = "voice" THEN {"absent", "ready_env"} ELSE {"absent"})

\* the worker's steps in a script of set, wait and voice_event directives
WaitWorker ==
    \/ run
    \/ _pause_gate
    \/ gate_sleep
    \/ handle_set
    \/ handle_wait
    \/ handle_voice_event
    \/ ve_skip
    \/ ve_get
    \/ delays_fixed
    \/ delays_jitter
    \/ w_poll
    \/ w_skip
    \/ w_paused
    \/ w_time
    \/ w_sleep

NextAsync ==
    \/ WaitWorker
    \/ _toggle_pause
    \/ _skip_wait_now
    \/ press_n
    \/ release_n
    \/ press_space
    \/ release_space
    \/ set_SKIP_EVENT
    \/ set_PAUSE_TOGGLE_EVENT

\* the worker thread against the hotkey thread, the keys and the voice daemon
SpecAsync == InitAsync /\ [][NextAsync]_vars

-----------------------------------------------------------------------------
(* The hotkey thread, followed press by press *)

\* the thread _start_pause_listener starts: it returns at once when keyboard is
\* None; otherwise it registers the two hotkeys and blocks in keyboard.wait(),
\* or logs the exception add_hotkey raised and ends
_start_pause_listener ==
    /\ hotkeys.listener = "start"
    /\ \E l \in (IF keyboard THEN {"wait", "ended"} ELSE {"ended"}) :
          hotkeys' = [hotkeys EXCEPT !.listener = l]
    /\ UNCHANGED <<progVars, variables, flagVars, restart_requested,
                   keyboard, instances, typing, extnode, runner, keyN,
                   keySpace, bridge, SKIP_EVENT, PAUSE_TOGGLE_EVENT, voice, now, pc,
                   stack, cur, gret, waitVars, err, trace, obs>>

\* the user presses ctrl+n: a registered hotkey owes one call of _skip_wait_now
ctrl_n ==
    /\ ~keyN
    /\ hotkeys.pressedN < MaxPresses
    /\ keyN' = TRUE
    /\ hotkeys' = [hotkeys EXCEPT !.pressedN = @ + 1,
                                  !.n = IF hotkeys.listener = "wait" THEN @ + 1 ELSE @]
    /\ UNCHANGED <<progVars, variables, flagVars, restart_requested,
                   keyboard, instances, typing, extnode, runner,
                   keySpace, bridge, SKIP_EVENT, PAUSE_TOGGLE_EVENT, voice, now, pc,
                   stack, cur, gret, waitVars, err, trace, obs>>

\* the user presses ctrl+space: a registered hotkey owes one call of _toggle_pause
ctrl_space ==
    /\ ~keySpace
    /\ hotkeys.pressedSpace < MaxPresses
    /\ keySpace' = TRUE
    /\ hotkeys' = [hotkeys EXCEPT !.pressedSpace = @ + 1,
                                  !.space = IF hotkeys.listener = "wait" THEN @ + 1
                                            ELSE @]
    /\ UNCHANGED <<progVars, variables, flagVars, restart_requested,
                   keyboard, instances, typing, extnode, runner, keyN,
                   bridge, SKIP_EVENT, PAUSE_TOGGLE_EVENT, voice, now, pc, stack, cur,
                   gret, waitVars, err, trace, obs>>

\* the keyboard module's thread runs the callback of ctrl+n: _skip_wait_now
hotkey_ctrl_n ==
    /\ hotkeys.n > 0
    /\ hotkeys' = [hotkeys EXCEPT !.n = @ - 1]
    /\ skip_wait' = TRUE
    /\ UNCHANGED <<progVars, variables, paused, _last_ctrlspace, restart_requested,

                   keyboard, instances, typing, extnode, runner, keyN, keySpace, bridge, SKIP_EVENT, PAUSE_TOGGLE_EVENT,
                   voice, now, pc, stack, cur, gret, waitVars, err, trace, obs>>

\* the keyboard module's thread runs the callback of ctrl+space: _toggle_pause
hotkey_ctrl_space ==
    /\ hotkeys.space > 0
    /\ hotkeys' = [hotkeys EXCEPT !.space = @ - 1, !.ranSpace = @ + 1]
    /\ paused' = ~paused
    /\ UNCHANGED <<progVars, variables, skip_wait, _last_ctrlspace,
                   restart_requested,
                   keyboard, instances, typing, extnode, runner, keyN, keySpace, bridge, SKIP_EVENT,
                   PAUSE_TOGGLE_EVENT, voice, now, pc, stack, cur, gret, waitVars,
                   err, trace, obs>>

\* a directive with both delays, then a wait
HotkeyScenarios ==
    { Scenario("hotkeys",
               <<Node("s1", "set", <<At("x", <<Txt("1")>>),
                                     At("delay_fixed", <<Txt("50")>>),
                                     At("delay_ms", <<Txt("60")>>)>>, <<>>),
                 Leaf("w1", "wait", "ms", "100")>>, 0, <<>>) }

\* XMLProgram(xml_path) has just started the listener thread; the keyboard module
\* may be missing; no voice daemon
InitHotkeys ==
    /\ \E sc \in HotkeyScenarios : Loaded(sc)
    /\ keyboard \in BOOLEAN
    /\ hotkeys = [NoHotkeys EXCEPT !.listener = "start"]
    /\ instances = NoInstances
    /\ typing = NoTyping
    /\ extnode = NoExtnode
    /\ runner = NoRunner
    /\ bridge = FALSE
    /\ voice = "absent"

NextHotkeys ==
    \/ run
    \/ _pause_gate
    \/ gate_sleep
    \/ handle_set
    \/ handle_wait
    \/ delays_fixed
    \/ delays_jitter
    \/ w_poll
    \/ w_skip
    \/ w_paused
    \/ w_time
    \/ w_sleep
    \/ _start_pause_listener
    \/ ctrl_n
    \/ release_n
    \/ ctrl_space
    \/ release_space
    \/ hotkey_ctrl_n
    \/ hotkey_ctrl_space

\* the worker thread against the listener thread, the user's key presses and the
\* callbacks they set off
SpecHotkeys == InitHotkeys /\ [][NextHotkeys]_vars

-----------------------------------------------------------------------------
(* Scripts of control flow *)

\* <set k="text"/> with several attributes
Set1(id, k, text) == Leaf(id, "set", k, text)
Set2(id, k1, t1, k2, t2) ==
    Node(id, "set", <<At(k1, <<Txt(t1)>>), At(k2, <<Txt(t2)>>)>>, <<>>)

\* <func name="f"> <set seen="1"/> <set last="2"/> </func>
FuncF ==
    Node("f1", "func", <<At("name", <<Txt("f")>>)>>,
         <<Set1("b1", "seen", "1"), Set1("b2", "last", "2")>>)
\* <Func name="g"> ... </Func>: a tag findall(".//func") does not match
FuncG ==
    Node("g1", "Func", <<At("name", <<Txt("g")>>)>>, <<Set1("gb", "seen", "3")>>)

\* the children of the repeat directive of the scripts
RepeatBody ==
    <<Set1("c1", "a", "1"), Node("nt", "note", <<>>, <<>>), Set1("c2", "b", "2")>>

\* <set n="2"/> <repeat ...> children </repeat> <set d="1"/>
RepeatScript(attrs) ==
    <<Set1("p1", "n", "2"), Node("r1", "repeat", attrs, RepeatBody),
      Set1("z1", "d", "1")>>

\* scripts of one repeat, each with the number of passes Python makes of it
RepeatScenarios ==
    { Scenario("repeat", RepeatScript(<<At("times", <<Txt(ToString(i))>>)>>),
               IF i < 0 THEN 0 ELSE i, <<>>) : i \in (-1)..MaxTimes }
    \cup
    { Scenario("repeat", RepeatScript(<<At("times", <<Ph("n")>>)>>), 2, <<>>),
      Scenario("repeat", RepeatScript(<<At("times", <<Txt("n")>>)>>), 2, <<>>),
      Scenario("repeat", RepeatScript(<<At("count", <<Txt("2")>>)>>), 2, <<>>),
      Scenario("repeat", RepeatScript(<<At("times", <<Txt("")>>),
                                        At("count", <<Txt("1")>>)>>), 1, <<>>),
      Scenario("repeat", RepeatScript(<<At("times", <<Txt("0")>>),
                                        At("count", <<Txt("2")>>)>>), 0, <<>>),
      Scenario("repeat", RepeatScript(<<>>), 0, <<>>),
      Scenario("repeat", RepeatScript(<<At("times", <<Txt("abc")>>)>>), 0, <<>>),
      Scenario("repeat", RepeatScript(<<At("times", <<Txt("1.0.0")>>)>>), 0, <<>>),
      Scenario("repeat", RepeatScript(<<At("times", <<Txt("3 x")>>)>>), 0, <<>>),
      Scenario("repeat", RepeatScript(<<At("times", <<Ph("x")>>)>>), 0, <<>>),
      Scenario("repeat", RepeatScript(<<At("times", <<Txt("['e1']")>>)>>), 0, <<>>),
      Scenario("repeat", RepeatScript(<<At("times", <<Txt("2.7")>>)>>), 2, <<>>),
      Scenario("repeat", RepeatScript(<<At("times", <<Txt("'3'")>>)>>), 3, <<>>),
      Scenario("repeat", RepeatScript(<<At("times", <<Txt("True")>>)>>), 1, <<>>) }

\* a script of one foreach, with the loop variable it names and the elements Python
\* iterates over
ForeachScenario(name, top, var, items) ==
    [name |-> name, tree |-> top, n |-> Len(items), items |-> items, var |-> var]

\* <set item="'abc'" x="'abc'" arg0="'abc'" index="-1" ITEMS="[...]" S="e1"/>
ForeachSetup(q) ==
    Node("p1", "set",
         <<At("item", <<Txt("'abc'")>>), At("x", <<Txt("'abc'")>>),
           At("arg0", <<Txt("'abc'")>>), At("index", <<Txt("-1")>>),
           At("ITEMS", <<Txt("[" \o ListStr(q) \o "]")>>),
           At("S", <<Txt("e1")>>)>>, <<>>)

\* funcs, the setup, <foreach .../>, <set d="1"/>
ForeachScript(q, attrs) ==
    <<FuncF, FuncG, ForeachSetup(q), Node("fe", "foreach", attrs, <<>>),
      Set1("z1", "d", "1")>>

ForeachScenarios ==
    { ForeachScenario("foreach",
          ForeachScript(ItemList(k), <<At("list", <<Txt("ITEMS")>>),
                                       At("do", <<Txt("f")>>)>>),
          "item", ItemList(k)) : k \in 0..MaxItems }
    \cup
    { ForeachScenario("foreach",
          ForeachScript(ItemList(k), <<At("list", <<Txt("ITEMS")>>),
                                       At("var", <<Txt("x")>>),
                                       At("do", <<Txt("f")>>)>>),
          "x", ItemList(k)) : k \in 0..MaxItems }
    \cup
    { ForeachScenario("foreach",
          ForeachScript(<<>>, <<At("list", <<Txt(JoinLines(ItemList(k)))>>),
                                At("var", <<Txt("x")>>),
                                At("do", <<Txt("f")>>)>>),
          "x", ItemList(k)) : k \in 2..MaxItems }
    \cup
    { ForeachScenario("foreach",
          ForeachScript(ItemList(2), <<At("list", <<Ph("ITEMS")>>),
                                       At("do", <<Txt("f")>>)>>),
          "item", <<"['e1', 'e2']">>),
      ForeachScenario("foreach",
          ForeachScript(<<>>, <<At("list", <<Txt("S")>>), At("do", <<Txt("f")>>)>>),
          "item", <<"e1">>),
      ForeachScenario("foreach",
          ForeachScript(<<>>, <<At("list", <<Txt("e2")>>), At("do", <<Txt("f")>>)>>),
          "item", <<"e2">>),
      ForeachScenario("foreach",
          ForeachScript(ItemList(2), <<At("var", <<Txt("x")>>),
                                       At("do", <<Txt("f")>>)>>),
          "x", <<>>),
      ForeachScenario("foreach",
          ForeachScript(ItemList(2), <<At("list", <<Ph("missing")>>),
                                       At("do", <<Txt("f")>>)>>),
          "item", <<>>) }

\* <set ITEMS="[...]"/> <foreach list="ITEMS" var="x" do="..."/> with a name
\* that _load_xml did not register
ForeachUnknownScript(q, attrs) ==
    <<FuncF, FuncG, Set1("p1", "ITEMS", "[" \o ListStr(q) \o "]"),
      Node("fe", "foreach", attrs, <<>>), Set1("z1", "d", "1")>>

ForeachUnknownScenarios ==
    { ForeachScenario("foreach_unknown",
          ForeachUnknownScript(ItemList(k), <<At("list", <<Txt("ITEMS")>>),
                                              At("var", <<Txt("x")>>),
                                              At("do", <<Txt(d)>>)>>),
          "x", ItemList(k)) : k \in {0, 2}, d \in {"nofunc", "g"} }

\* <set a="1"/> <call ... arg0="${a}" arg1="2" delay_fixed="50" delay_ms="50"/>
CallScript(nameAttr) ==
    <<FuncF, FuncG, Set1("p1", "a", "1"),
      Node("k1", "call",
           nameAttr \o <<At("arg0", <<Ph("a")>>), At("arg1", <<Txt("2")>>),
                         At("delay_fixed", <<Txt("50")>>),
                         At("delay_ms", <<Txt("50")>>)>>, <<>>),
      Set1("z1", "d", "1")>>

CallUnknownScenarios ==
    { Scenario("call_unknown", CallScript(<<At("name", <<Txt("missing")>>)>>), 0, <<>>),
      Scenario("call_unknown", CallScript(<<At("name", <<Txt("g")>>)>>), 0, <<>>),
      Scenario("call_unknown", CallScript(<<At("name", <<Txt("")>>)>>), 0, <<>>),
      Scenario("call_unknown", CallScript(<<>>), 0, <<>>) }

\* a call of a registered function, and a wait at the top level
CallScenarios ==
    { Scenario("call", CallScript(<<At("name", <<Txt("f")>>)>>), 0, <<>>),
      Scenario("call", <<Leaf("w1", "wait", "ms", "50")>>, 0, <<>>) }

\* a comparison of a check directive: the attribute, whether the stored value and
\* the expected text both convert to numbers, |expected - actual| in thousandths
\* when they do, and whether str(stored value) is the expected text
Cmp(k, conv, diff, streq) == [k |-> k, conv |-> conv, diff |-> diff, streq |-> streq]

\* a script of one check: n is the tolerance in thousandths (None where the
\* handler reads no tolerance), items are the comparisons in attribute order
CheckScenario(setup, attrs, tol, cmps) ==
    [name |-> "check",
     tree |-> <<Node("p1", "set", setup, <<>>), Node("h1", "check", attrs, <<>>),
                Set1("z1", "d", "1")>>,
     n |-> tol, items |-> cmps]

None == -1000000

A1(k, text) == <<At(k, <<Txt(text)>>)>>

CheckScenarios ==
    { CheckScenario(A1("x", "1.004"), A1("x", "1.0") \o A1("tol", "0.01"), 10,
                    <<Cmp("x", TRUE, 4, FALSE)>>),
      CheckScenario(A1("x", "1.004"), A1("tol", "0.01") \o A1("x", "1.02"), 10,
                    <<Cmp("x", TRUE, 16, FALSE)>>),
      CheckScenario(A1("x", "1.004"), A1("x", "1.004"), None,
                    <<Cmp("x", TRUE, 0, TRUE)>>),
      CheckScenario(A1("x", "1.004"), A1("x", "1.0") \o A1("tol", ""), None,
                    <<Cmp("x", TRUE, 4, FALSE)>>),
      CheckScenario(A1("x", "'abc'"), A1("x", "1.0") \o A1("tol", "0.01"), 10,
                    <<Cmp("x", FALSE, 0, FALSE)>>),
      CheckScenario(A1("x", "'abc'"), A1("x", "abc"), None,
                    <<Cmp("x", FALSE, 0, TRUE)>>),
      CheckScenario(A1("x", "'abc'"), A1("x", "'abc'"), None,
                    <<Cmp("x", FALSE, 0, FALSE)>>),
      CheckScenario(A1("x", "3"), A1("x", "3"), None,
                    <<Cmp("x", TRUE, 0, TRUE)>>),
      CheckScenario(A1("x", "1.0"), A1("x", "1"), None,
                    <<Cmp("x", TRUE, 0, FALSE)>>),
      CheckScenario(A1("x", "1.0"), A1("x", "1") \o A1("tol", "0"), 0,
                    <<Cmp("x", TRUE, 0, FALSE)>>),
      CheckScenario(A1("x", "1"), A1("x", "1") \o A1("tol", "-1"), -1000,
                    <<Cmp("x", TRUE, 0, TRUE)>>),
      CheckScenario(A1("x", "3"), A1("x", "'3'") \o A1("tol", "0.01"), 10,
                    <<Cmp("x", TRUE, 0, FALSE)>>),
      CheckScenario(A1("x", "3"), A1("x", "abc") \o A1("tol", "1"), 1000,
                    <<Cmp("x", FALSE, 0, FALSE)>>),
      CheckScenario(A1("x", "3"), A1("y", "None"), None,
                    <<Cmp("y", FALSE, 0, TRUE)>>),
      CheckScenario(A1("x", "3"), A1("y", "3") \o A1("tol", "1"), 1000,
                    <<Cmp("y", FALSE, 0, FALSE)>>),
      CheckScenario(A1("x", "True"), A1("x", "True"), None,
                    <<Cmp("x", TRUE, 0, TRUE)>>),
      CheckScenario(A1("x", "3") \o A1("y", "3"), A1("x", Item(1)) \o A1("tol", "1")
                    \o A1("y", "3"), 1000,
                    <<Cmp("x", FALSE, 0, FALSE), Cmp("y", TRUE, 0, TRUE)>>),
      CheckScenario(A1("x", "3") \o A1("y", "2"),
                    <<At("x", <<Ph("x")>>), At("y", <<Ph("x")>>)>> \o A1("a", "1"), None,
                    <<Cmp("x", TRUE, 0, TRUE), Cmp("y", TRUE, 1000, FALSE),
                      Cmp("a", FALSE, 0, FALSE)>>),
      CheckScenario(A1("a", "1") \o A1("b", "2") \o A1("c", "3"),
                    A1("a", "1") \o A1("b", "2.7") \o A1("tol", "1") \o A1("c", "0"), 1000,
                    <<Cmp("a", TRUE, 0, TRUE), Cmp("b", TRUE, 700, FALSE),
                      Cmp("c", TRUE, 3000, FALSE)>>),
      CheckScenario(A1("a", "1") \o A1("b", "2"),
                    A1("a", "1") \o A1("b", "2"), None,
                    <<Cmp("a", TRUE, 0, TRUE), Cmp("b", TRUE, 0, TRUE)>>) }

\* a script of one if: n is 1 when Python finds the condition true, items are the
\* children a run dispatches
IfScenario(setup, attrs, kids, res, ids) ==
    [name |-> "if",
     tree |-> <<Node("p1", "set", setup, <<>>), Node("i1", "if", attrs, kids),
                Set1("z1", "d", "1")>>,
     n |-> res, items |-> ids]

Else(id, tag) == Node(id, tag, <<>>, <<>>)

\* <set a="1"/> <set b="2"/> <else/> <set c="3"/> <set d="4"/>
IfKids ==
    <<Set1("t1", "a", "1"), Set1("t2", "b", "2"), Else("el", "else"),
      Set1("u1", "c", "3"), Set1("u2", "d", "4")>>

\* the texts of conditions, with what bool(eval(...)) makes of them with x = 1
IfConds ==
    { <<<<Txt("True")>>, 1>>, <<<<Txt("False")>>, 0>>, <<<<Txt("1")>>, 1>>,
      <<<<Txt("0")>>, 0>>, <<<<Txt("")>>, 0>>, <<<<Txt(" ")>>, 0>>,
      <<<<Txt("abc")>>, 0>>, <<<<Txt("x")>>, 0>>, <<<<Ph("x")>>, 1>>,
      <<<<Ph("missing")>>, 0>>, <<<<Txt("1.0.0")>>, 0>>, <<<<Txt("3 x")>>, 0>>,
      <<<<Txt("'abc'")>>, 1>>, <<<<Txt("0.0")>>, 0>>, <<<<Txt("[]")>>, 0>>,
      <<<<Txt("['e1']")>>, 1>> }

IfScenarios ==
    { IfScenario(A1("x", "1"), <<At("cond", c[1])>>, IfKids, c[2],
                 IF c[2] = 1 THEN <<"t1", "t2">> ELSE <<"u1", "u2">>) : c \in IfConds }
    \cup
    { IfScenario(A1("x", "1"), <<>>, IfKids, 0, <<"u1", "u2">>),
      IfScenario(A1("x", "1"), A1("cond", "1"),
                 <<Set1("t1", "a", "1"), Set1("t2", "b", "2")>>, 1, <<"t1", "t2">>),
      IfScenario(A1("x", "1"), A1("cond", "0"),
                 <<Set1("t1", "a", "1"), Set1("t2", "b", "2")>>, 0, <<>>),
      IfScenario(A1("x", "1"), A1("cond", "1"),
                 <<Else("el", "else"), Set1("u1", "c", "3")>>, 1, <<>>),
      IfScenario(A1("x", "1"), A1("cond", "0"),
                 <<Set1("t1", "a", "1"), Else("el", "Else"), Set1("u1", "c", "3"),
                   Else("el", "else"), Set1("u2", "d", "4")>>, 0, <<"u1", "u2">>),
      IfScenario(A1("x", "1"), A1("cond", "1"),
                 <<Set1("t1", "a", "1"), Else("el", "else"), Set1("u1", "c", "3"),
                   Else("el", "else"), Set1("u2", "d", "4")>>, 1, <<"t1">>),
      IfScenario(A1("x", "1"), A1("cond", "1"), <<>>, 1, <<>>) }

\* <set x="v"/> <if cond="..."> as above </if> <set d="1"/>: conditions naming
\* the variable x or a math function, and ${x}; bare tells the former
IfNameScenario(v, c, res, bare) ==
    [name |-> "if_names",
     tree |-> <<Set1("p1", "x", v), Node("i1", "if", <<At("cond", c)>>, IfKids),
                Set1("z1", "d", "1")>>,
     n |-> res, items |-> IF res = 1 THEN <<"t1", "t2">> ELSE <<"u1", "u2">>,
     bare |-> bare, reached |-> c[1].s \notin SkippedNameTexts]

IfNameScenarios ==
    { IfNameScenario(v, <<Txt(t)>>, 0, TRUE) :
        v \in {"0", "1"}, t \in NameTexts \cup {"x", "False and x", "0 and x"} }
    \cup
    { IfNameScenario(v, <<Txt(t)>>, 1, TRUE) :
        v \in {"0", "1"}, t \in {"True or x", "1 or sqrt(4)"} }
    \cup
    { IfNameScenario("0", <<Ph("x")>>, 0, FALSE),
      IfNameScenario("1", <<Ph("x")>>, 1, FALSE) }

\* the directives that fail: a check of an unset variable, a call and a foreach
\* of a name that is not registered; each with the error Python raises
Failing ==
    { <<Node("x1", "check", A1("x", "2"), <<>>), "AssertionError">>,
      <<Node("x1", "call", A1("name", "missing"), <<>>), "ValueError">>,
      <<Node("x1", "foreach", A1("list", "e1") \o A1("do", "nofunc"), <<>>),
        "ValueError">> }

\* a failing directive at the top level, in an if, in a repeat, in the body of a
\* called function, in the body of a foreach, and three levels down
FatalScripts(x) ==
    LET h == Node("h1", "func", A1("name", "h"), <<x, Set1("a1", "a", "1")>>)
    IN { <<x, Set1("z1", "d", "1")>>,
         <<Node("i1", "if", A1("cond", "1"), <<x, Set1("a1", "a", "1")>>),
           Set1("z1", "d", "1")>>,
         <<Node("i1", "if", A1("cond", "0"),
                <<Set1("a2", "a", "1"), Else("el", "else"), x, Set1("a1", "a", "1")>>),
           Set1("z1", "d", "1")>>,
         <<Node("r1", "repeat", A1("times", "2"), <<x, Set1("a1", "a", "1")>>),
           Set1("z1", "d", "1")>>,
         <<h, Node("k1", "call", A1("name", "h"), <<>>), Set1("z1", "d", "1")>>,
         <<h, Node("fe", "foreach", A1("list", JoinLines(ItemList(2)))
                                    \o A1("do", "h"), <<>>),
           Set1("z1", "d", "1")>>,
         <<h, Node("r1", "repeat", A1("times", "2"),
                   <<Node("i1", "if", A1("cond", "1"),
                          <<Node("k1", "call", A1("name", "h"), <<>>),
                            Set1("a2", "b", "1")>>),
                     Set1("a3", "c", "1")>>),
           Set1("z1", "d", "1")>> }

\* items: the error the run is to end with
FatalScenarios ==
    UNION { { Scenario("fatal", t, 0, <<f[2]>>) : t \in FatalScripts(f[1]) } : f \in Failing }

\* a func node with a name and one child
Func1(id, tag, name, kid) == Node(id, tag, A1("name", name), <<kid>>)

\* the top level of a script: directives, func nodes with and without a name, a
\* func node in a repeat; items are the dispatches of a run
TopLevelScenarios ==
    { Scenario("toplevel",
          <<Set1("s1", "a", "1"), FuncF, Node("nt", "note", <<>>, <<>>),
            Node("u1", "func", <<>>, <<Set1("ub", "b", "1")>>),
            Node("r1", "repeat", A1("times", "1"),
                 <<Func1("n1", "func", "n", Set1("nb", "b", "2")),
                   Set1("c1", "c", "1")>>),
            Node("k1", "call", A1("name", "n"), <<>>),
            Set1("z1", "d", "1")>>,
          0, <<"s1", "nt", "r1", "n1", "c1", "k1", "nb", "z1">>),
      Scenario("toplevel",
          <<Set1("s1", "a", "1"), FuncG, Set1("z1", "d", "1")>>,
          0, <<"s1", "z1">>) }

\* func nodes that share the name f: the table is made before the run, from the
\* whole document
DuplicateScenarios ==
    { Scenario("duplicates",
          <<Func1("f1", "func", "f", Set1("q1", "seen", "1")),
            Node("k1", "call", A1("name", "f"), <<>>),
            Node("r1", "repeat", A1("times", "1"),
                 <<Func1("f2", "func", "f", Set1("q2", "seen", "2"))>>),
            Node("k2", "call", A1("name", "f"), <<>>),
            Node("fe", "foreach", A1("list", "e1") \o A1("do", "f"), <<>>),
            Set1("z1", "f", "1")>>,
          0, <<"k1", "q2", "r1", "f2", "k2", "q2", "fe", "q2", "z1">>),
      Scenario("duplicates",
          <<Node("k1", "call", A1("name", "f"), <<>>),
            Node("f1", "func", A1("name", "f"),
                 <<Set1("q1", "seen", "1"),
                   Func1("f2", "func", "f", Set1("q2", "seen", "2"))>>),
            Func1("f3", "func", "f", Set1("q3", "seen", "3")),
            Func1("f4", "Func", "f", Set1("q4", "seen", "4")),
            Set1("z1", "f", "1")>>,
          0, <<"k1", "q3", "z1">>) }

\* <set a="2"/>, the set the scenario is about, <note/>; items are the entries
\* the store has after that set, as <<name, value>>
SetScenario(attrs, entries) ==
    Scenario("set", <<Set1("p1", "a", "2"), Node("s1", "set", attrs, <<>>),
                      Node("z1", "note", <<>>, <<>>)>>, 0, entries)

\* an attribute whose value is one placeholder
APh(k, name) == <<At(k, <<Ph(name)>>)>>

SetScenarios ==
    { SetScenario(A1("a", "1") \o APh("b", "a") \o A1("c", "a") \o A1("d", "abc")
                  \o A1("e", "1.0.0"),
                  << <<"a", IntV(1)>>, <<"b", IntV(1)>>, <<"c", IntV(1)>>,
                     <<"d", StrV("abc")>>, <<"e", StrV("1.0.0")>> >>),
      SetScenario(A1("b", "a") \o A1("a", "3") \o A1("c", "a") \o APh("d", "a"),
                  << <<"b", IntV(2)>>, <<"a", IntV(3)>>, <<"c", IntV(3)>>,
                     <<"d", IntV(3)>> >>),
      SetScenario(A1("a", "'abc'") \o APh("b", "a") \o APh("c", "y") \o A1("d", "")
                  \o A1("m", "True"),
                  << <<"a", StrV("abc")>>, <<"b", StrV("abc")>>, <<"c", StrV("")>>,
                     <<"d", StrV("")>>, <<"m", BoolV(TRUE)>> >>),
      SetScenario(A1("x", "2.7") \o A1("delay_fixed", "abc") \o A1("y", "['e1']")
                  \o A1("delay_ms", "0") \o A1("m", "missing"),
                  << <<"x", FloatV(2700)>>, <<"y", ListV(<<"e1">>)>>,
                     <<"m", StrV("missing")>> >>),
      SetScenario(APh("a", "a") \o APh("b", "b") \o A1("c", "3 x"),
                  << <<"a", IntV(2)>>, <<"b", StrV("")>>, <<"c", StrV("3 x")>> >>) }

\* a set and a check that carry all of delay_fixed, delay_ms, tol and comment
ReservedScenarios ==
    { Scenario("reserved",
          <<Node("s1", "set",
                 A1("x", "1") \o A1("delay_fixed", "0") \o A1("delay_ms", "0")
                 \o A1("tol", "2") \o A1("comment", "hello"), <<>>),
            Node("k1", "check",
                 A1("x", "1") \o A1("delay_fixed", "50") \o A1("delay_ms", "0")
                 \o A1("tol", "0") \o A1("comment", "abc"), <<>>),
            Node("z1", "note", <<>>, <<>>)>>,
          0, <<"s1", "k1", CheckLine("x", TRUE), "z1">>) }

\* one directive that carries delay_fixed="50", then <note/>
DelayScenario(tag, attrs) ==
    Scenario("delay", <<Node("d1", tag, attrs \o A1("delay_fixed", "50"), <<>>),
                        Node("z1", "note", <<>>, <<>>)>>, 0, <<>>)

DelayScenarios ==
    { DelayScenario("set", A1("x", "1")),
      DelayScenario("wait", A1("ms", "0")),
      DelayScenario("if", A1("cond", "1")),
      DelayScenario("note", <<>>) }

\* one directive that calls a collaborator, then <note/>
CollaboratorScenario(tag, attrs) ==
    Scenario("collaborator", <<Node("d1", tag, attrs, <<>>),
                               Node("z1", "note", <<>>, <<>>)>>, 0, <<>>)

CollaboratorScenarios ==
    { CollaboratorScenario("type", A1("text", "abc")),
      CollaboratorScenario("click", A1("x", "10") \o A1("y", "20")),
      CollaboratorScenario("shell", A1("cmd", "abc") \o A1("output_var", "v")),
      CollaboratorScenario("shell", A1("cmd", "abc") \o A1("output_var", "v")
                                    \o A1("output_format", "list")),
      CollaboratorScenario("extnode", A1("module", "m") \o A1("method", "f")
                                      \o A1("output_var", "v")) }

\* extnode directives naming the pairs (m, C) four times (twice in a repeat),
\* (m, D) once, and the module m2 without a class
Ext(id, mod, cls, method) ==
    Node(id, "extnode",
         A1("module", mod) \o (IF cls = "" THEN <<>> ELSE A1("class", cls))
                           \o A1("method", method), <<>>)

ExtnodeScenarios ==
    { Scenario("extnode_cache",
          <<Ext("e1", "m", "C", "f"),
            Node("r1", "repeat", A1("times", "2"), <<Ext("e2", "m", "C", "g")>>),
            Ext("e3", "m", "D", "f"),
            Ext("e4", "m2", "", "f"),
            Ext("e5", "m", "C", "f")>>, 0, <<>>) }

\* nodes of kinds the dispatcher has no handler for, and func nodes, at the top
\* level and in the body of a repeat; items are the dispatches of a run
NoOpScenarios ==
    { Scenario("noop",
          <<Set1("s1", "a", "1"),
            Node("n1", "note", A1("x", "5") \o A1("delay_fixed", "50"), <<>>),
            Node("e1", "else", <<>>, <<Set1("eb", "b", "1")>>),
            Node("r1", "repeat", A1("times", "2"),
                 <<Func1("h1", "func", "h", Set1("hb", "c", "1")),
                   Node("n2", "note", A1("name", "h"), <<Set1("nb", "d", "1")>>)>>),
            Set1("z1", "z", "1")>>,
          0, <<"s1", "n1", "e1", "r1", "h1", "n2", "h1", "n2", "z1">>) }

\* a call whose body assigns, reads its argument and calls a second function
\* that binds the same argument name; items are <<id, name, value>>: what the
\* store holds under that name once the node with that id was dispatched
ScopeScenarios ==
    { Scenario("scope",
          <<Node("fs", "func", A1("name", "f"),
                 <<Set2("b1", "x", "2", "y", "arg0"),
                   Node("k2", "call", A1("name", "g") \o A1("arg0", "abc"), <<>>),
                   Set1("b3", "w", "arg0")>>),
            Node("gs", "func", A1("name", "g"),
                 <<Set2("gb", "v", "arg0", "arg1", "3")>>),
            Set2("p1", "x", "1", "arg0", "0"),
            Node("k1", "call",
                 A1("name", "f") \o APh("arg0", "x") \o A1("arg1", "2"), <<>>),
            Set2("z1", "u", "arg0", "t", "x")>>,
          0,
          << <<"p1", "x", IntV(1)>>, <<"p1", "arg0", IntV(0)>>,
             <<"k1", "x", IntV(1)>>, <<"k1", "arg0", StrV("1")>>,
             <<"k1", "arg1", StrV("2")>>,
             <<"b1", "x", IntV(2)>>, <<"b1", "y", StrV("1")>>,
             <<"k2", "arg0", StrV("abc")>>, <<"k2", "arg1", StrV("2")>>,
             <<"gb", "v", StrV("abc")>>, <<"gb", "arg1", IntV(3)>>,
             <<"b3", "w", StrV("abc")>>, <<"b3", "arg0", StrV("abc")>>,
             <<"b3", "arg1", IntV(3)>>, <<"b3", "x", IntV(2)>>,
             <<"z1", "u", StrV("abc")>>, <<"z1", "t", IntV(2)>>,
             <<"z1", "arg0", StrV("abc")>>, <<"z1", "arg1", IntV(3)>>,
             <<"z1", "y", StrV("1")>>, <<"z1", "v", StrV("abc")>>,
             <<"z1", "w", StrV("abc")>> >>) }

\* a script with include elements and the files beside it: the tree is what
\* _load_xml parses; items are the dispatches of a run
IncludeScenario(name, raw, files, ids) ==
    [name |-> name, tree |-> include_sub(raw, files), n |-> 0, items |-> ids,
     raw |-> raw, files |-> files]

Program(kids) == Node("", "program", <<>>, kids)

\* a.xml includes b.xml, c.xml is a lone func element, d.xml includes a file
\* that does not exist
Files ==
    ("a.xml" :> <<Program(<<Set1("sa", "b", "1"), Include("i2", "b.xml"),
                            Func1("fa", "func", "fa", Set1("ab", "c", "1"))>>)>>)
    @@ ("b.xml" :> <<Program(<<Set1("sb", "d", "1"),
                               Func1("fb", "func", "fb", Set1("bb", "c", "2"))>>)>>)
    @@ ("c.xml" :> <<Func1("fc", "func", "fc", Set1("cb", "c", "3"))>>)
    @@ ("d.xml" :> <<Program(<<Include("i4", "missing.xml"),
                               Set1("sd", "d", "1")>>)>>)
    @@ ("e.xml" :> <<Node("", "Program", A1("v", "1"),
                          <<Set1("se", "e", "1"),
                            Func1("fe", "func", "fe", Set1("eb", "c", "4")),
                            Node("re", "repeat", A1("times", "1"),
                                 <<Set1("ec", "e", "2")>>)>>)>>)

IncludeScenarios ==
    { IncludeScenario("include",
          <<Set1("s1", "a", "1"), Include("i1", "a.xml"), Set1("z1", "z", "1")>>,
          Files, <<"s1", "sa", "i2", "z1">>),
      IncludeScenario("include",
          <<Node("r1", "repeat", A1("times", "1"), <<Include("i1", "c.xml")>>),
            Include("i3", "b.xml"),
            Node("k1", "call", A1("name", "fc"), <<>>), Set1("z1", "z", "1")>>,
          Files, <<"r1", "fc", "sb", "k1", "cb", "z1">>),
      IncludeScenario("include",
          <<Include("i1", "d.xml"), Set1("z1", "z", "1")>>,
          Files, <<"i4", "sd", "z1">>),
      IncludeScenario("include",
          <<Set1("s1", "a", "1"), Include("i1", "e.xml"),
            Node("k1", "call", A1("name", "fe"), <<>>),
            Node("r1", "repeat", A1("times", "1"), <<Include("i3", "b.xml")>>),
            Set1("z1", "z", "1")>>,
          Files, <<"s1", "se", "re", "ec", "k1", "eb", "r1", "sb", "fb", "z1">>),
      IncludeScenario("include_missing",
          <<Set1("s1", "a", "1"), Include("i1", "missing.xml"),
            Node("r1", "repeat", A1("times", "1"),
                 <<Include("i3", "missing.xml"), Set1("c1", "c", "1")>>),
            Func1("f1", "func", "f", Include("i5", "other.xml")),
            Node("k1", "call", A1("name", "f"), <<>>),
            Set1("z1", "z", "1")>>,
          Files, <<"s1", "r1", "c1", "k1", "z1">>),
      IncludeScenario("include_missing",
          <<Include("i1", "missing.xml")>>, Files, <<>>) }

\* voice directives, run with no VoiceDaemon to import ("absent") and with one
\* that starts when VOICE_ENABLED is set ("ready")
VoiceScenarios ==
    { Scenario("voice_absent",
          <<Node("s0", "set", A1("v", "1") \o A1("c", "1") \o A1("q", "1"), <<>>),
            Node("v1", "voice_event", A1("wait", "100") \o A1("out", "v"), <<>>),
            Node("q1", "voice_poll", A1("out_cmd", "c") \o A1("out_query", "q"),
                 <<>>),
            Node("q2", "Voice_Poll", <<>>, <<>>),
            Node("v2", "voice_event", A1("type", "command"), <<>>),
            Set1("z1", "z", "1")>>,
          0, <<"s0", "v1", "q1", "q2", "v2", "z1">>),
      Scenario("voice_poll",
          <<Node("s0", "set", A1("VOICE_ENABLED", "1") \o A1("c", "1")
                                  \o A1("q", "1"), <<>>),
            Node("q1", "voice_poll", A1("out_cmd", "c") \o A1("out_query", "q"),
                 <<>>),
            Set1("z1", "z", "1")>>,
          0, <<"s0", "q1", "z1">>) }

\* loops whose body assigns the variable the loop was set up from:
\* <set n="2"/> <repeat times="n"> <set n="v"/> </repeat> <set d="1"/>, and
\* <func name="h"> <set ITEMS="[...]"/> </func> <set ITEMS="['e1', 'e2']"/>
\* <foreach list="ITEMS" var="x" do="h" [random_shuffle="1"]/> <set d="1"/>
FixedScenarios ==
    { Scenario("repeat_fixed",
          <<Set1("p1", "n", "2"),
            Node("r1", "repeat", <<At("times", <<t>>)>>, <<Set1("c1", "n", v)>>),
            Set1("z1", "d", "1")>>, 2, <<>>) :
        t \in {Txt("n"), Ph("n")}, v \in {"0", "3"} }
    \cup
    { [ForeachScenario("foreach_fixed",
          <<Node("h1", "func", A1("name", "h"),
                 <<Set1("hb", "ITEMS", "[" \o ListStr(ItemList(k)) \o "]")>>),
            Set1("p1", "ITEMS", "[" \o ListStr(ItemList(2)) \o "]"),
            Node("fe", "foreach",
                 A1("list", "ITEMS") \o A1("var", "x") \o A1("do", "h") \o sh, <<>>),
            Set1("z1", "d", "1")>>,
          "x", ItemList(2)) EXCEPT !.n = k] :
        k \in {0, 3}, sh \in {<<>>, A1("random_shuffle", "1")} }

Scenarios ==
    FixedScenarios \cup IfNameScenarios \cup ExtnodeScenarios \cup RepeatScenarios \cup ForeachScenarios \cup ForeachUnknownScenarios
    \cup CallUnknownScenarios \cup CallScenarios \cup CheckScenarios
    \cup IfScenarios \cup FatalScenarios \cup TopLevelScenarios
    \cup DuplicateScenarios \cup SetScenarios \cup ReservedScenarios
    \cup DelayScenarios \cup CollaboratorScenarios \cup NoOpScenarios
    \cup ScopeScenarios \cup IncludeScenarios \cup VoiceScenarios

\* the engine constructed on one script, with no keyboard module and no voice
\* daemon importable
Init ==
    /\ \E sc \in Scenarios : Loaded(sc)
    /\ keyboard = FALSE
    /\ hotkeys = NoHotkeys
    /\ instances = NoInstances
    /\ typing = NoTyping
    /\ extnode = NoExtnode
    /\ runner = NoRunner
    /\ bridge = FALSE
    /\ voice \in (IF scen.name \in {"voice_absent", "voice_poll"}
                  THEN {"absent", "ready"} ELSE {"absent"})

\* the worker's steps in a script of control flow
Worker ==
    \/ run
    \/ _pause_gate
    \/ gate_sleep
    \/ handle_set
    \/ handle_wait
    \/ handle_func
    \/ handle_check
    \/ handle_if
    \/ if_loop
    \/ handle_type
    \/ handle_click
    \/ handle_shell
    \/ handle_extnode
    \/ handle_voice_event
    \/ handle_voice_poll
    \/ handle_repeat
    \/ repeat_loop
    \/ handle_foreach
    \/ foreach_loop
    \/ foreach_bind
    \/ handle_call
    \/ call_loop
    \/ delays_fixed
    \/ delays_jitter
    \/ w_poll
    \/ w_skip
    \/ w_paused
    \/ w_time
    \/ w_sleep

Next ==
    \/ Worker
    \/ _toggle_pause
    \/ _skip_wait_now

\* the worker thread against the hotkey thread's two callbacks
Spec == Init /\ [][Next]_vars

-----------------------------------------------------------------------------
(* Two XMLProgram objects in one process *)

Instances == {1, 2}
Constructed == DOMAIN instances.of

\* a class-level dict: every object's attribute is the same dict
SharedDict(heap) == 1
\* `{}` in __init__: a dict that no other name refers to
NewDict(heap) == Len(heap) + 1

\* the dict at address a becomes d
Store(heap, a, d) ==
    IF a = Len(heap) + 1 THEN Append(heap, d) ELSE [heap EXCEPT ![a] = d]

\* self.variables and self.functions of object i
VariablesOf(i) == instances.heap[instances.of[i].variables]
FunctionsOf(i) == instances.heap[instances.of[i].functions]

\* the scripts the objects are constructed on: the same function name, two bodies
InstanceScripts ==
    { <<Node("f1", "func", A1("name", "f"), <<Set1("b1", "seen", v)>>)>> :
        v \in {"1", "2"} }
InstanceSets == { Set1("s1", "x", "1") }
InstanceCalls ==
    { Node("k1", "call", A1("name", n) \o A1("arg0", "p"), <<>>) : n \in {"f", "h"} }

\* everything but the objects
restVars == <<progVars, variables, flagVars, restart_requested, keyboard, hotkeys,
              typing, extnode, runner,
              keyN, keySpace, bridge, voice, now, pc, stack, cur, gret, waitVars,
              err, trace, obs>>

\* XMLProgram(xml_path): two new dicts, the flags false, _hotkeys_started false,
\* then _load_xml, then _start_pause_listener, which starts the listener thread
__init__ ==
    /\ \E i \in Instances \ Constructed : \E top \in InstanceScripts :
          LET va == NewDict(instances.heap)
              h1 == Store(instances.heap, va, InitVariables)
              fa == NewDict(h1)
              h2 == Store(h1, fa, _load_xml(top))
          IN instances' =
                [heap |-> h2,
                 of |-> (i :> [variables |-> va, functions |-> fa,
                               skip_wait |-> FALSE, paused |-> FALSE,
                               _hotkeys_started |-> FALSE, listener |-> "start"])
                        @@ instances.of,
                 actor |-> i,
                 backend |-> instances.backend]
    /\ UNCHANGED <<restVars, SKIP_EVENT, PAUSE_TOGGLE_EVENT>>

\* object i stores into its self.variables
StoreVariables(i, vs) ==
    instances' = [instances EXCEPT
                     !.heap = Store(instances.heap, instances.of[i].variables, vs),
                     !.actor = i]

RECURSIVE RunSets(_, _)
\* the set directives of a function body, run one after the other
RunSets(kids, vs) ==
    IF kids = <<>> THEN vs ELSE RunSets(Tail(kids), SetAttrs(Head(kids).attrs, vs))

\* handle_set of object i
handle_set_i ==
    /\ \E i \in Constructed : \E node \in InstanceSets :
          StoreVariables(i, SetAttrs(node.attrs, VariablesOf(i)))
    /\ UNCHANGED <<restVars, SKIP_EVENT, PAUSE_TOGGLE_EVENT>>

\* handle_call of object i: the lookup in its own table (an unknown name raises),
\* the arg* bindings, the body
handle_call_i ==
    /\ \E i \in Constructed : \E node \in InstanceCalls :
          IF NodeGet(node, "name", "") \notin DOMAIN FunctionsOf(i)
          THEN instances' = [instances EXCEPT !.actor = i]
          ELSE StoreVariables(i,
                   RunSets(FunctionsOf(i)[NodeGet(node, "name", "")].kids,
                           BindArgs(node.attrs, VariablesOf(i))))
    /\ UNCHANGED <<restVars, SKIP_EVENT, PAUSE_TOGGLE_EVENT>>

\* handle_foreach of object i over the one-element list e1: the bindings, the body
handle_foreach_i ==
    /\ \E i \in Constructed :
          StoreVariables(i, RunSets(FunctionsOf(i)["f"].kids,
                                    ForeachBind(VariablesOf(i), "item", "e1", 0)))
    /\ UNCHANGED <<restVars, SKIP_EVENT, PAUSE_TOGGLE_EVENT>>

\* _toggle_pause of object i
_toggle_pause_i ==
    /\ \E i \in Constructed :
          instances' = [instances EXCEPT !.of[i].paused = ~@, !.actor = i]
    /\ UNCHANGED <<restVars, SKIP_EVENT, PAUSE_TOGGLE_EVENT>>

\* _skip_wait_now of object i
_skip_wait_now_i ==
    /\ \E i \in Constructed :
          instances' = [instances EXCEPT !.of[i].skip_wait = TRUE, !.actor = i]
    /\ UNCHANGED <<restVars, SKIP_EVENT, PAUSE_TOGGLE_EVENT>>

\* one pass of the loop of _sleep_ms_interruptible in object i: the module-level
\* SKIP_EVENT is tested and cleared first, then the object's own skip_wait
_sleep_ms_interruptible_i ==
    /\ \E i \in Constructed :
          IF bridge /\ SKIP_EVENT
          THEN /\ SKIP_EVENT' = FALSE
               /\ instances' = [instances EXCEPT !.actor = i]
          ELSE /\ instances' = [instances EXCEPT !.of[i].skip_wait = FALSE,
                                                 !.actor = i]
               /\ UNCHANGED SKIP_EVENT
    /\ UNCHANGED <<restVars, PAUSE_TOGGLE_EVENT>>

\* one pass of the loop of _pause_gate in object i, which is paused: the
\* module-level PAUSE_TOGGLE_EVENT is cleared and the object's paused toggled
_pause_gate_i ==
    /\ \E i \in Constructed :
          /\ instances.of[i].paused
          /\ IF bridge /\ PAUSE_TOGGLE_EVENT
             THEN /\ PAUSE_TOGGLE_EVENT' = FALSE
                  /\ instances' = [instances EXCEPT !.of[i].paused = ~@, !.actor = i]
             ELSE /\ instances' = [instances EXCEPT !.actor = i]
                  /\ UNCHANGED PAUSE_TOGGLE_EVENT
    /\ UNCHANGED <<restVars, SKIP_EVENT>>

\* one process, voice.voice_daemon importable, no object constructed yet
InitInstances ==
    /\ Loaded(Scenario("instances", <<>>, 0, <<>>))
    /\ keyboard = FALSE
    /\ hotkeys = NoHotkeys
    /\ instances = NoInstances
    /\ typing = NoTyping
    /\ extnode = NoExtnode
    /\ runner = NoRunner
    /\ bridge = TRUE
    /\ voice = "absent"

NextInstances ==
    \/ __init__
    \/ handle_set_i
    \/ handle_call_i
    \/ handle_foreach_i
    \/ _toggle_pause_i
    \/ _skip_wait_now_i
    \/ _sleep_ms_interruptible_i
    \/ _pause_gate_i
    \/ set_SKIP_EVENT
    \/ set_PAUSE_TOGGLE_EVENT

\* the threads of two engine objects and the voice daemon's events
SpecInstances == InitInstances /\ [][NextInstances]_vars

-----------------------------------------------------------------------------
(* Claims *)

GatePcs == {"gate", "gate_sleep"}
WaitReturns == InWait /\ ~InWait'

C2_PausedTimeExcluded ==
    obs.exit = "timeout" => obs.active >= obs.total

\* C3: a consumer (the wait loop or a voice_event loop) that reads skip_wait as
\* true has set it to false when it goes on.
C3_FirstConsumerClears ==
    [][ (pc \in {"w_skip", "ve_skip"} /\ skip_wait /\ pc' # pc) => ~skip_wait' ]_vars

\* the voice_event loop consumed a skip: it was left with empty outputs before its
\* deadline, and the flag is clear
C3_Witness ==
    /\ scen.name = "voice"
    /\ pc = "delays"
    /\ voice = "on"
    /\ "v" \in DOMAIN variables
    /\ variables["v"] = StrV("")
    /\ now = 0
    /\ ~skip_wait

\* C4: from the gate the worker goes on only by reading paused as false, and
\* while it is in the gate no handler effect happens (store, handler entry, stack).
C4_PauseGateFirst ==
    [][ /\ (pc \in GatePcs /\ pc' \notin GatePcs) => (pc = "gate" /\ ~paused)
        /\ pc \in GatePcs => (variables' = variables /\ trace' = trace
                              /\ stack' = stack) ]_vars

\* the gate of a set directive found paused true and is sleeping; nothing is set
C4_Witness ==
    /\ pc = "gate_sleep"
    /\ gret = "exec"
    /\ cur.id = "s1"
    /\ "x" \notin DOMAIN variables

-----------------------------------------------------------------------------
(* Restart.  The frontend calls self.prog.request_restart() on the engine   *)
(* of core.xml_engine ("engine will stop at next checkpoint"); that engine  *)
(* is not part of the sources, and the one modelled above has no such flag. *)
(* The flag and the checkpoint are modelled from the specification:         *)
(* restart-requested is observed only by the outer run loop between         *)
(* top-level statements; when set, the run aborts and the engine            *)
(* re-initializes from the top.                                             *)

MaxRestarts == 2

\* the restarts made so far
Restarts == Cardinality({i \in 1..Len(trace) : trace[i] = "restart"})

\* request_restart(): the flag is set
request_restart ==
    /\ ~restart_requested
    /\ Restarts < MaxRestarts
    /\ pc \notin {"done", "error"}
    /\ restart_requested' = TRUE
    /\ UNCHANGED <<progVars, variables, flagVars, envVars, now, pc, stack, cur, gret,
                   waitVars, err, trace, obs>>

\* a checkpoint in every loop of statements, nested ones too
RestartCheckpointAnyLoop == pc = "next"
\* the checkpoint: the outer run loop, between two top-level statements
RestartCheckpoint == pc = "next" /\ Top.kind = "run"

\* the run loop finds the flag set: the run is abandoned and begun again
restart_run ==
    /\ RestartCheckpoint
    /\ restart_requested
    /\ restart_requested' = FALSE
    /\ variables' = InitVariables
    /\ stack' = <<Frame("run", NoNode, tree, 0, <<>>)>>
    /\ cur' = NoNode
    /\ gret' = "exec"
    /\ pc' = "next"
    /\ trace' = Append(trace, "restart")
    /\ UNCHANGED <<progVars, flagVars, envVars, now, waitVars, err, obs>>

\* the run loop finds the flag clear: the next top-level statement
run_checked == ~restart_requested /\ run

InitRestart ==
    /\ Loaded(Scenario("restart", RepeatScript(<<At("times", <<Ph("n")>>)>>), 2, <<>>))
    /\ keyboard = FALSE
    /\ hotkeys = NoHotkeys
    /\ instances = NoInstances
    /\ typing = NoTyping
    /\ extnode = NoExtnode
    /\ runner = NoRunner
    /\ bridge = FALSE
    /\ voice = "absent"

NextRestart ==
    \/ run_checked
    \/ restart_run
    \/ request_restart
    \/ _pause_gate
    \/ handle_set
    \/ handle_func
    \/ handle_repeat
    \/ repeat_loop
    \/ delays_fixed
    \/ delays_jitter

\* the worker against a frontend that can ask for a restart at any moment
SpecRestart == InitRestart /\ [][NextRestart]_vars

\* the number of dispatches of the node with this id so far
Count(id, q) == Cardinality({i \in 1..Len(q) : q[i] = id})

Dispatched(id) == Count(id, trace) > 0
LastDispatched(id) == trace # <<>> /\ trace[Len(trace)] = id

\* C5: the restart-requested flag is observed only between top-level statements:
\* the one step that clears it is taken by the run loop with no statement in
\* progress, and it leaves the store, the position and the loops of the run as
\* they are when a run begins; a run loop that finds the flag set takes no other
\* step.
C5_RestartOnlyBetweenTopLevel ==
    [][ /\ (restart_requested /\ ~restart_requested') =>
              /\ pc = "next" /\ Len(stack) = 1
              /\ pc' = "next"
              /\ variables' = InitVariables
              /\ stack' = <<Frame("run", NoNode, tree, 0, <<>>)>>
        /\ (restart_requested /\ pc = "next" /\ Len(stack) = 1 /\ stack' # stack) =>
              ~restart_requested' ]_vars

C5_Witness ==
    /\ scen.name = "restart"
    /\ LastDispatched("restart")
    /\ Restarts = 1
    /\ Count("c2", trace) = 2
    /\ ~Dispatched("z1")
    /\ variables = InitVariables
    /\ stack = <<Frame("run", NoNode, tree, 0, <<>>)>>

-----------------------------------------------------------------------------
(* Claims about control flow, checked under Spec *)

RECURSIVE Times(_, _)
\* n copies of a sequence, one after the other
Times(q, n) == IF n <= 0 THEN <<>> ELSE q \o Times(q, n - 1)

IsPrefix(p, q) == Len(p) <= Len(q) /\ SubSeq(q, 1, Len(p)) = p

\* the dispatches of a run of a repeat script whose repeat makes n passes
RepeatRun(n) == <<"p1", "r1">> \o Times(<<"c1", "nt", "c2">>, n) \o <<"z1">>

\* C6: a repeat directive executes its children, in document order, exactly n
\* times, n being the evaluated count; a count that is missing, fails to evaluate
\* or is negative gives 0 passes and raises no error.
C6_RepeatExactlyNTimes ==
    scen.name = "repeat" =>
        /\ pc # "error"
        /\ IsPrefix(trace, RepeatRun(scen.n))
        /\ pc = "done" => trace = RepeatRun(scen.n)

C6_Witness ==
    /\ scen.name = "repeat"
    /\ scen.n = 2
    /\ NodeGet(scen.tree[2], "times", "") = "2.7"
    /\ pc = "done"

C8_CallUnknownDoesNothing ==
    scen.name = "call_unknown" =>
        /\ ~InWait
        /\ ~Dispatched("b1") /\ ~Dispatched("gb")
        /\ "arg0" \notin DOMAIN variables /\ "arg1" \notin DOMAIN variables
        /\ Dispatched("k1") =>
              /\ pc = "error"
              /\ err = "ValueError"
              /\ variables = Put(InitVariables, "a", IntV(1))

C8_Witness ==
    /\ scen.name = "call_unknown"
    /\ NodeGet(scen.tree[4], "name", "") = "missing"
    /\ LastDispatched("k1")
    /\ pc = "error"

\* C9: a foreach whose do names a function that is not registered is fatal, for
\* any list: the error is raised before the loop variable, index or arg0 is bound
\* and before any statement of a body runs.
C9_ForeachUnknownIsFatalFirst ==
    scen.name = "foreach_unknown" =>
        /\ scen.var \notin DOMAIN variables
        /\ "index" \notin DOMAIN variables
        /\ "arg0" \notin DOMAIN variables
        /\ ~Dispatched("b1") /\ ~Dispatched("gb")
        /\ pc # "bind"
        /\ Dispatched("fe") => (pc = "error" /\ err = "ValueError")

C9_Witness ==
    /\ scen.name = "foreach_unknown"
    /\ Len(scen.items) = 2
    /\ NodeGet(scen.tree[4], "do", "") = "g"
    /\ LastDispatched("fe")
    /\ pc = "error"

\* whether the claim says comparison c passes, under tolerance tol
CmpPasses(c, tol) == IF tol = None THEN c.streq ELSE c.conv /\ c.diff <= tol

RECURSIVE CmpLines(_, _)
\* the comparisons made up to and including the first that fails
CmpLines(cmps, tol) ==
    IF cmps = <<>> THEN <<>>
    ELSE IF CmpPasses(Head(cmps), tol)
         THEN <<CheckLine(Head(cmps).k, TRUE)>> \o CmpLines(Tail(cmps), tol)
         ELSE <<CheckLine(Head(cmps).k, FALSE)>>

\* C10: a check compares its non-reserved attributes in order. With a tolerance
\* a comparison passes iff the stored value and the expected text both convert to
\* numbers and |expected - actual| <= tol; without one it passes iff str(stored
\* value) is the substituted expected text. The first comparison that fails
\* raises, and the attributes after it are not compared.
C10_CheckComparesUntilFirstFailure ==
    (scen.name = "check" /\ Dispatched("h1")) =>
        LET lines == CmpLines(scen.items, scen.n)
            fails == \E i \in 1..Len(lines) :
                        lines[i] = CheckLine(scen.items[i].k, FALSE)
        IN /\ SubSeq(trace, 1, 2 + Len(lines)) = <<"p1", "h1">> \o lines
           /\ fails <=> (pc = "error" /\ err = "AssertionError")
           /\ fails => Len(trace) = 2 + Len(lines)
           /\ ~fails => (pc # "error" /\ (pc = "done" => Dispatched("z1")))

C10_Witness ==
    /\ scen.name = "check"
    /\ scen.n = 1000
    /\ Len(scen.items) = 3
    /\ trace = <<"p1", "h1", CheckLine("a", TRUE), CheckLine("b", TRUE),
                 CheckLine("c", FALSE)>>
    /\ pc = "error"

-----------------------------------------------------------------------------
(* _substitute_vars, character by character.  A text is the sequence of its  *)
(* characters; _VAR_PATTERN is matched against it as re.sub does.            *)

\* attribute values are made of up to this many pieces
MaxPieces == 3

LOWER ==
    <<"a", "b", "c", "d", "e", "f", "g", "h", "i", "j", "k", "l", "m", "n",
      "o", "p", "q", "r", "s", "t", "u", "v", "w", "x", "y", "z">>
UPPER ==
    <<"A", "B", "C", "D", "E", "F", "G", "H", "I", "J", "K", "L", "M", "N",
      "O", "P", "Q", "R", "S", "T", "U", "V", "W", "X", "Y", "Z">>
Digits == {"0", "1", "2", "3", "4", "5", "6", "7", "8", "9"}
\* [A-Za-z_] and [A-Za-z0-9_]
Alpha == {LOWER[i] : i \in 1..26} \cup {UPPER[i] : i \in 1..26} \cup {"_"}
Alnum == Alpha \cup Digits

\* the characters of the texts of the scripts and of the store
Chars ==
    ("" :> <<>>) @@ ("a" :> <<"a">>) @@ ("b" :> <<"b">>) @@ ("c" :> <<"c">>)
    @@ ("x" :> <<"x">>) @@ ("5" :> <<"5">>) @@ ("-" :> <<"-">>)
    @@ ("$" :> <<"$">>) @@ ("}" :> <<"}">>) @@ ("|" :> <<"|">>)
    @@ ("${" :> <<"$", "{">>) @@ ("x " :> <<"x", " ">>)
    @@ ("${1}" :> <<"$", "{", "1", "}">>)
    @@ ("${a|}" :> <<"$", "{", "a", "|", "}">>)
    @@ ("a b" :> <<"a", " ", "b">>) @@ ("a+b" :> <<"a", "+", "b">>)
    @@ ("${x}" :> <<"$", "{", "x", "}">>)
    @@ ("%24%7Bx%7D" :> <<"%", "2", "4", "%", "7", "B", "x", "%", "7", "D">>)
    @@ ("url" :> <<"u", "r", "l">>) @@ ("URL" :> <<"U", "R", "L">>)
    @@ ("upper" :> <<"u", "p", "p", "e", "r">>)
    @@ ("quote" :> <<"q", "u", "o", "t", "e">>)
    @@ ("urlencode" :> <<"u", "r", "l", "e", "n", "c", "o", "d", "e">>)
    @@ ("quote_plus" :> <<"q", "u", "o", "t", "e", "_", "p", "l", "u", "s">>)

RECURSIVE RawChars(_)
\* the attribute's text as written in the script
RawChars(toks) ==
    IF toks = <<>> THEN <<>>
    ELSE LET h == Head(toks)
         IN (IF h.ph
             THEN <<"$", "{">> \o Chars[h.s]
                  \o (IF h.filt = "" THEN <<>> ELSE <<"|">> \o Chars[h.filt])
                  \o <<"}">>
             ELSE Chars[h.s]) \o RawChars(Tail(toks))

RECURSIVE RunEnd(_, _, _)
\* the index after the longest run of characters of a class that begins at i
RunEnd(text, i, class) ==
    IF i <= Len(text) /\ text[i] \in class THEN RunEnd(text, i + 1, class) ELSE i

\* [A-Za-z_][A-Za-z0-9_]* at i: the index after it, 0 when there is none
IdentEnd(text, i) ==
    IF i <= Len(text) /\ text[i] \in Alpha THEN RunEnd(text, i + 1, Alnum) ELSE 0

NoMatch == [end |-> 0, var |-> <<>>, filt |-> <<>>]

\* _VAR_PATTERN matched at index i: where the match ends, group 1, group 2
_VAR_PATTERN(text, i) ==
    IF ~(i + 1 <= Len(text) /\ text[i] = "$" /\ text[i + 1] = "{") THEN NoMatch
    ELSE LET e1 == IdentEnd(text, i + 2)
         IN IF e1 = 0 \/ e1 > Len(text) THEN NoMatch
            ELSE IF text[e1] = "}"
            THEN [end |-> e1 + 1, var |-> SubSeq(text, i + 2, e1 - 1), filt |-> <<>>]
            ELSE IF text[e1] # "|" THEN NoMatch
            ELSE LET e2 == IdentEnd(text, e1 + 1)
                 IN IF e2 = 0 \/ e2 > Len(text) \/ text[e2] # "}" THEN NoMatch
                    ELSE [end |-> e2 + 1, var |-> SubSeq(text, i + 2, e1 - 1),
                          filt |-> SubSeq(text, e1 + 1, e2 - 1)]

\* str.lower()
LowerChars(text) ==
    [i \in 1..Len(text) |->
        IF \E j \in 1..26 : UPPER[j] = text[i]
        THEN LOWER[CHOOSE j \in 1..26 : UPPER[j] = text[i]] ELSE text[i]]

\* quote_plus of one character
QuoteChar(ch) ==
    CASE ch \in Alnum \cup {".", "-", "~"} -> <<ch>>
      [] ch = " " -> <<"+">>
      [] ch = "$" -> <<"%", "2", "4">>
      [] ch = "%" -> <<"%", "2", "5">>
      [] ch = "&" -> <<"%", "2", "6">>
      [] ch = "+" -> <<"%", "2", "B">>
      [] ch = "{" -> <<"%", "7", "B">>
      [] ch = "|" -> <<"%", "7", "C">>
      [] ch = "}" -> <<"%", "7", "D">>

RECURSIVE QuotePlusChars(_)
QuotePlusChars(text) ==
    IF text = <<>> THEN <<>> ELSE QuoteChar(Head(text)) \o QuotePlusChars(Tail(text))

\* a replacement that leaves the filter out
replUnfiltered(m, vs) ==
    IF \E k \in DOMAIN vs : Chars[k] = m.var
    THEN Chars[PyStr(vs[CHOOSE k \in DOMAIN vs : Chars[k] = m.var])] ELSE <<>>

\* repl(m): _apply_filter(variables.get(var, ""), filt)
repl(m, vs) ==
    LET raw == IF \E k \in DOMAIN vs : Chars[k] = m.var
               THEN Chars[PyStr(vs[CHOOSE k \in DOMAIN vs : Chars[k] = m.var])]
               ELSE <<>>
    IN IF LowerChars(m.filt) \in {Chars[f] : f \in UrlFilters}
       THEN QuotePlusChars(raw) ELSE raw

RECURSIVE _VAR_PATTERN_sub(_, _, _)
\* _VAR_PATTERN.sub(repl, value) from index i on: the leftmost match is replaced
\* and the scan goes on behind it, in the text as it was
_VAR_PATTERN_sub(text, i, vs) ==
    IF i > Len(text) THEN <<>>
    ELSE LET m == _VAR_PATTERN(text, i)
         IN IF m = NoMatch
            THEN <<text[i]>> \o _VAR_PATTERN_sub(text, i + 1, vs)
            ELSE repl(m, vs) \o _VAR_PATTERN_sub(text, m.end, vs)

\* the pieces of the attribute values: text that is no placeholder, alone or next
\* to any other piece, and placeholders of set and unset names with and without
\* filters
Pieces ==
    {Txt(t) : t \in {"-", "$", "}", "|", "${", "x ", "${1}", "${a|}"}}
    \cup {Ph(v) : v \in {"a", "b", "x", "c"}}
    \cup {PhF("a", "url"), PhF("a", "URL"), PhF("a", "upper"),
          PhF("b", "quote_plus"), PhF("c", "url")}

\* the store of these runs: a is 'a b', b is the text of a placeholder, x is 5
SubstVariables == ("a" :> StrV("a b")) @@ ("b" :> StrV("${x}")) @@ ("x" :> IntV(5))

\* the attribute values: every sequence of up to MaxPieces pieces
SubstInputs == UNION { [1..k -> Pieces] : k \in 0..MaxPieces }

InitSubst ==
    /\ \E toks \in SubstInputs : scen = Scenario("substitute", <<>>, 0, toks)
    /\ tree = <<>>
    /\ functions = _load_xml(<<>>)
    /\ variables = SubstVariables
    /\ skip_wait = FALSE
    /\ paused = FALSE
    /\ _last_ctrlspace = FALSE
    /\ restart_requested = FALSE
    /\ keyboard = FALSE
    /\ hotkeys = NoHotkeys
    /\ instances = NoInstances
    /\ typing = NoTyping
    /\ extnode = NoExtnode
    /\ runner = NoRunner
    /\ keyN = FALSE
    /\ keySpace = FALSE
    /\ bridge = FALSE
    /\ SKIP_EVENT = FALSE
    /\ PAUSE_TOGGLE_EVENT = FALSE
    /\ voice = "absent"
    /\ now = 0
    /\ pc = "call"
    /\ stack = <<>>
    /\ cur = NoNode
    /\ gret = "exec"
    /\ end_ts = 0
    /\ dur = 0
    /\ wret = "next"
    /\ err = ""
    /\ trace = <<>>
    /\ obs = NoObs

\* _substitute_vars(value, variables); trace takes the text it returns
substitute ==
    /\ pc = "call"
    /\ trace' = _VAR_PATTERN_sub(RawChars(scen.items), 1, variables)
    /\ pc' = "done"
    /\ UNCHANGED <<progVars, variables, flagVars, restart_requested, envVars, now,
                   stack, cur, gret, waitVars, err, obs>>

NextSubst == substitute

\* one call of _substitute_vars on every attribute value
SpecSubst == InitSubst /\ [][NextSubst]_vars

-----------------------------------------------------------------------------
(* Claims C11..C20 *)

\* C11: a failed check, or a call or foreach of an unregistered function, ends the
\* run with that error at any nesting depth (top level, if, repeat, the body of a
\* called function, the body of a foreach): the failing directive is dispatched
\* once, no directive after it is dispatched, and the run never completes.
C11_ScriptFailureEndsRun ==
    scen.name = "fatal" =>
        /\ Count("x1", trace) <= 1
        /\ \A id \in {"a1", "a2", "a3", "z1"} : ~Dispatched(id)
        /\ pc # "done"
        /\ (Dispatched("x1") \/ err # "") =>
              /\ Dispatched("x1")
              /\ pc = "error"
              /\ err = scen.items[1]

C11_Witness ==
    /\ scen.name = "fatal"
    /\ Len(stack) = 4
    /\ Top.kind = "call"
    /\ pc = "error"
    /\ err = "AssertionError"
    /\ trace = <<"r1", "i1", "k1", "x1", CheckLine("x", FALSE)>>

\* the ids of the nodes of a list
Ids(nodes) == {nodes[i].id : i \in 1..Len(nodes)}
\* the dispatches of the children of the root, in the order they were made
TopDispatches == SelectSeq(trace, LAMBDA id : id \in Ids(tree))
\* the children of the root that are no func nodes
TopDirectives == SelectSeq(tree, LAMBDA node : lower(node.tag) # "func")
\* the func nodes of the document that carry a name
NamedFuncs ==
    {i \in 1..Len(DocOrder(tree)) :
        /\ lower(DocOrder(tree)[i].tag) = "func"
        /\ NodeGet(DocOrder(tree)[i], "name", "") # ""}

\* C13: run() dispatches the children of the root in document order, each once,
\* except the func nodes, which it never dispatches; after loading, the name of
\* every named func node of the document is in the function table.
C13_TopLevelOrderAndTable ==
    scen.name = "toplevel" =>
        /\ Len(TopDispatches) <= Len(TopDirectives)
        /\ \A i \in 1..Len(TopDispatches) : TopDispatches[i] = TopDirectives[i].id
        /\ pc = "done" => Len(TopDispatches) = Len(TopDirectives)
        /\ \A i \in NamedFuncs :
              NodeGet(DocOrder(tree)[i], "name", "") \in DOMAIN functions

\* the func nodes of the document named name, by their place in document order
Definitions(name) ==
    {i \in 1..Len(DocOrder(tree)) :
        /\ DocOrder(tree)[i].tag = "func"
        /\ NodeGet(DocOrder(tree)[i], "name", "") = name}

C12_IfRunsOneBranch ==
    scen.name = "if" =>
        /\ pc # "error"
        /\ ~Dispatched("el")
        /\ IsPrefix(trace, <<"p1", "i1">> \o scen.items \o <<"z1">>)
        /\ pc = "done" => trace = <<"p1", "i1">> \o scen.items \o <<"z1">>

C12_Witness ==
    /\ scen.name = "if"
    /\ NodeGet(scen.tree[2], "cond", "") = "abc"
    /\ Len(scen.tree[2].kids) = 5
    /\ trace = <<"p1", "i1", "u1", "u2", "z1">>
    /\ pc = "done"

\* what a piece of an attribute value becomes: a placeholder the string form of
\* the variable (the empty text when it is unset), quoted by a quoting filter and
\* as it is under any other; other text itself
PieceResult(p, vs) ==
    IF p.ph
    THEN Chars[_apply_filter(IF p.s \in DOMAIN vs THEN vs[p.s] ELSE StrV(""), p.filt)]
    ELSE Chars[p.s]

RECURSIVE Concat(_)
Concat(q) == IF q = <<>> THEN <<>> ELSE Head(q) \o Concat(Tail(q))

\* C15: substitution is one pass from left to right: each ${name} and
\* ${name|filter} becomes the string form of the variable, empty when unset, the
\* text around them stays as it is, an unknown filter changes nothing, and a
\* value that itself reads ${...} is not expanded again.
C15_SubstituteSinglePass ==
    (scen.name = "substitute" /\ pc = "done") =>
        trace = Concat([i \in 1..Len(scen.items) |->
                            PieceResult(scen.items[i], variables)])

C15_Witness ==
    /\ scen.name = "substitute"
    /\ scen.items = <<PhF("a", "URL"), Txt("${"), Ph("b")>>
    /\ trace = <<"a", "+", "b", "$", "{", "$", "{", "x", "}">>
    /\ pc = "done"

\* the names the entries of a scenario bind
Keys(entries) == {entries[i][1] : i \in 1..Len(entries)}

\* C16: set never ends the run with an error: each attribute stores what its
\* substituted text evaluates to, or that text itself when the evaluation raises;
\* the attributes are taken in order, each against the store the earlier ones
\* left.
C16_SetStoresEvalOrRaw ==
    scen.name = "set" =>
        /\ pc # "error"
        /\ IsPrefix(trace, <<"p1", "s1", "z1">>)
        /\ pc = "done" => trace = <<"p1", "s1", "z1">>
        /\ trace = <<"p1">> => variables = Put(InitVariables, "a", IntV(2))
        /\ Dispatched("s1") =>
             /\ DOMAIN variables = DOMAIN InitVariables \cup {"a"} \cup Keys(scen.items)
             /\ \A i \in 1..Len(scen.items) :
                    variables[scen.items[i][1]] = scen.items[i][2]

C16_Witness ==
    /\ scen.name = "set"
    /\ pc = "done"
    /\ variables["c"] = IntV(1)
    /\ variables["d"] = StrV("abc")
    /\ variables["e"] = StrV("1.0.0")

Reserved == {"delay_fixed", "delay_ms", "tol", "comment"}

\* C17: delay_fixed, delay_ms, tol and comment are not taken for variables: a set
\* makes or changes no store entry of those names, and a check compares none of
\* them.
C17_ReservedNamesExcluded ==
    scen.name = "reserved" =>
        /\ DOMAIN variables \cap Reserved = {}
        /\ \A k \in Reserved, b \in BOOLEAN : ~Dispatched(CheckLine(k, b))
        /\ pc # "error"

\* C18: whatever its kind, a dispatched directive that carries delay_fixed is
\* followed by an interruptible wait of that length before the next directive is
\* dispatched: when the next node is reached, the last wait the worker made was
\* the 50 ms of delay_fixed, ended by its time or by a skip.
C18_DelayAfterEveryDirective ==
    (scen.name = "delay" /\ Dispatched("z1")) =>
        /\ obs.total = 50
        /\ obs.exit \in {"timeout", "skip"}

\* C19: when the collaborator a directive calls (type, click, shell, extnode)
\* raises, the handler catches it: the run does not end with an error, the
\* output variable is empty or not set, and the next directive is dispatched.
C19_CollaboratorFailureCaught ==
    scen.name = "collaborator" =>
        /\ pc # "error"
        /\ err = ""
        /\ pc = "done" => trace = <<"d1", "z1">>

\* the worker is about to dispatch a func node or a node of a kind that
\* _exec_node has no handler for
AtNoOp == pc = "dispatch" /\ lower(cur.tag) \in {"func"} \cup Unrecognized

\* C20: the dispatch of a node of an unrecognized kind, or of a func node met
\* during execution, does nothing: no error, the store, the function table, the
\* tree and the skip and pause flags stay as they are, and the worker goes on
\* to the next sibling; the children of such a node are not dispatched.
C20_UnrecognizedIsNoOp ==
    /\ [][(AtNoOp /\ pc' # pc) =>
            /\ pc' = "next"
            /\ err' = ""
            /\ variables' = variables
            /\ functions' = functions
            /\ tree' = tree
            /\ skip_wait' = skip_wait
            /\ paused' = paused
            /\ stack' = stack]_vars
    /\ [](scen.name = "noop" =>
            /\ IsPrefix(trace, scen.items)
            /\ pc # "error"
            /\ pc = "done" => trace = scen.items
            /\ DOMAIN variables \subseteq DOMAIN InitVariables \cup {"a", "z"})

C20_Witness ==
    /\ scen.name = "noop"
    /\ pc = "done"
    /\ trace = <<"s1", "n1", "e1", "r1", "h1", "n2", "h1", "n2", "z1">>
    /\ DOMAIN functions = {"h"}

-----------------------------------------------------------------------------
(* Claims C21..C30 *)

\* C21: a call has no frame of its own: its arg attributes are written into the
\* one store as substituted strings before the body runs, the body reads and
\* writes that store, and the return of the call restores nothing: neither the
\* bindings (also those a nested call made under the same name) nor what the
\* callee assigned.
C21_CallSharesStore ==
    scen.name = "scope" =>
        /\ pc # "error"
        /\ IsPrefix(trace, <<"p1", "k1", "b1", "k2", "gb", "b3", "z1">>)
        /\ pc = "done" => Dispatched("z1")
        /\ \A i \in 1..Len(scen.items) :
              LastDispatched(scen.items[i][1]) =>
                  /\ scen.items[i][2] \in DOMAIN variables
                  /\ variables[scen.items[i][2]] = scen.items[i][3]

C21_Witness ==
    /\ scen.name = "scope"
    /\ pc = "done"
    /\ variables["arg0"] = StrV("abc")
    /\ variables["arg1"] = IntV(3)
    /\ variables["x"] = IntV(2)
    /\ variables["u"] = StrV("abc")

\* the include elements that the parsed tree still holds
IncludesLeft == {i \in 1..Len(DocOrder(tree)) : lower(DocOrder(tree)[i].tag) = "include"}

\* C23: inlining is recursive: after loading, the tree holds no include element
\* whose target file exists, also where the element came from an included file.
C23_IncludeRecursive ==
    scen.name \in {"include", "include_missing"} =>
        \A i \in IncludesLeft :
            NodeGet(DocOrder(tree)[i], "text", "") \notin DOMAIN scen.files

RECURSIVE WithoutIncludes(_)
\* the script with its include elements deleted
WithoutIncludes(nodes) ==
    IF nodes = <<>> THEN <<>>
    ELSE LET h == Head(nodes)
         IN (IF lower(h.tag) = "include" THEN <<>>
             ELSE <<[h EXCEPT !.kids = WithoutIncludes(h.kids)]>>)
            \o WithoutIncludes(Tail(nodes))

\* C24: a script that includes files that do not exist loads, and loads as the
\* script without those include elements does: the same tree and the same
\* function table; the run is the run of that script.
C24_MissingIncludeIsEmpty ==
    scen.name = "include_missing" =>
        /\ tree = WithoutIncludes(scen.raw)
        /\ functions = _load_xml(WithoutIncludes(scen.raw))
        /\ pc # "error"
        /\ IsPrefix(trace, scen.items)
        /\ pc = "done" => trace = scen.items

C24_Witness ==
    /\ scen.name = "include_missing"
    /\ Len(scen.raw) = 6
    /\ Len(tree) = 5
    /\ DOMAIN functions = {"f"}
    /\ functions["f"].kids = <<>>
    /\ trace = <<"s1", "r1", "c1", "k1", "z1">>
    /\ pc = "done"

\* the output variables a voice directive writes
VoiceOutputs(node) ==
    IF lower(node.tag) = "voice_event"
    THEN {GetOr(node, "out", "VOICE_TEXT"), GetOr(node, "out", "VOICE_TEXT") \o "_type"}
    ELSE {GetOr(node, "out_cmd", "VOICE_CMD"), GetOr(node, "out_query", "VOICE_QUERY")}

\* C26: a voice_event or voice_poll handled with no speech collaborator
\* (self.voice stays unset) raises nothing, leaves its output variables set to
\* the empty string and goes on to the directive's delays; the run dispatches
\* the directives after it.
C26_VoiceAbsentIsEmpty ==
    /\ [][ (pc = "dispatch" /\ lower(cur.tag) \in {"voice_event", "voice_poll"}
            /\ pc' # pc /\ voice' # "on")
           => /\ pc' = "delays"
              /\ err' = ""
              /\ \A k \in VoiceOutputs(cur) :
                    k \in DOMAIN variables' /\ variables'[k] = StrV("") ]_vars
    /\ [](scen.name = "voice_absent" =>
            /\ pc # "error"
            /\ voice # "on"
            /\ IsPrefix(trace, scen.items)
            /\ pc = "done" => trace = scen.items)

C26_Witness ==
    /\ scen.name = "voice_absent"
    /\ pc = "done"
    /\ trace = <<"s0", "v1", "q1", "q2", "v2", "z1">>
    /\ \A k \in {"v", "v_type", "c", "q", "VOICE_CMD", "VOICE_QUERY", "VOICE_TEXT",
                 "VOICE_TEXT_type"} :
          k \in DOMAIN variables /\ variables[k] = StrV("")
    /\ variables["z"] = IntV(1)

\* C25: with the hotkey backend unavailable (the listener thread ended without
\* registering the hotkeys), the inline poll at the head of each wait slice
\* detects the combos: ctrl+n held sets the skip flag, and ctrl+space newly
\* held changes the paused flag.
C25_InlinePollFallback ==
    [][ (hotkeys.listener = "ended" /\ pc = "w_poll" /\ pc' # pc)
        => /\ keyN => skip_wait'
           /\ (keySpace /\ ~_last_ctrlspace) => paused' = ~paused ]_vars

\* C27: skip is one-shot: while the skip combo has been pressed once at most
\* (and nothing else requests a skip), at most one wait of the run is ended by
\* skip: not the fixed wait of a directive and then its jittered wait or the wait
\* of the following directive.
C27_SkipIsOneShot ==
    hotkeys.pressedN <= 1 => obs.skips <= 1

\* C28: one press of the pause combo changes paused exactly once: when the
\* callback of the only press has run and the key is up again, with nothing left
\* for the inline poll to do, the engine that was running is paused.
C28_OnePressTogglesOnce ==
    (/\ hotkeys.pressedSpace = 1
     /\ hotkeys.ranSpace = 1
     /\ ~keySpace
     /\ ~_last_ctrlspace) => paused

\* C29, as stated: a wait never returns by its deadline while paused is true.
C29_NoDeadlineReturnWhilePaused ==
    [][ (WaitReturns /\ paused) => obs'.exit # "timeout" ]_vars

\* C29, amended: a slice of a wait whose pause test reads paused true sleeps one
\* step and goes back to the head of the loop, leaving the deadline as it is; the
\* deadline test is reached only from a pause test that read false, and only the
\* deadline test returns by timeout; the skip test comes first and ends the wait
\* whatever paused is.
C29_PausedSliceOnlySleeps ==
    [][ /\ (pc = "w_paused" /\ paused /\ pc' # pc)
           => (pc' = "w_sleep" /\ dur' = step /\ end_ts' = end_ts)
        /\ (pc # "w_time" /\ pc' = "w_time") => (pc = "w_paused" /\ ~paused)
        /\ (WaitReturns /\ obs'.exit = "timeout") => pc = "w_time"
        /\ (pc = "w_sleep" /\ pc' # pc) => pc' = "w_poll"
        /\ (pc = "w_poll" /\ pc' \notin {pc, wret}) => pc' = "w_skip"
        /\ (pc = "w_skip" /\ skip_wait /\ pc' # pc)
           => (pc' = wret /\ obs'.exit = "skip") ]_vars

\* a wait that was held by the pause past its deadline and was ended by a skip,
\* paused still true
C29_Witness ==
    /\ ~InWait
    /\ obs.exit = "skip"
    /\ obs.br = "pause"
    /\ paused
    /\ obs.total > 0
    /\ now > end_ts

\* the clock value at which the wait in progress was called
WaitCalledAt == end_ts - obs.total

\* C30, as stated: skip_wait, once true, stays true until a wait consumes it
\* (no directive and no pause gate clears it); a wait called with skip_wait true
\* returns without sleeping and leaves skip_wait false; a voice_event loop that
\* finds it true asks the collaborator nothing, ends and leaves it false.
C30_PendingSkipEndsNextWait ==
    [][ /\ (skip_wait /\ ~skip_wait') => (pc \in {"w_skip", "ve_skip"} /\ pc' # pc)
        /\ (WaitReturns /\ obs.pending) => (now' = WaitCalledAt /\ ~skip_wait')
        /\ (pc = "ve_skip" /\ skip_wait /\ pc' # pc)
           => (pc' = "delays" /\ ~skip_wait')
        /\ (pc # "ve_get" /\ pc' = "ve_get") => (pc = "ve_skip" /\ ~skip_wait) ]_vars

\* C30, amended: as above, but the wait called with skip_wait true leaves it
\* false only when it returns by reading it; when SKIP_EVENT is set too the wait
\* returns through the bridge, and skip_wait stays true for the wait after it.
C30_PendingSkipKept ==
    [][ /\ (skip_wait /\ ~skip_wait') => (pc \in {"w_skip", "ve_skip"} /\ pc' # pc)
        /\ (WaitReturns /\ obs.pending)
           => /\ now' = WaitCalledAt
              /\ \/ obs'.exit = "skip" /\ ~skip_wait'
                 \/ obs'.exit = "bridge" /\ skip_wait' /\ SKIP_EVENT /\ ~SKIP_EVENT'
        /\ (pc = "ve_skip" /\ skip_wait /\ pc' # pc)
           => (pc' = "delays" /\ ~skip_wait')
        /\ (pc # "ve_get" /\ pc' = "ve_get") => (pc = "ve_skip" /\ ~skip_wait) ]_vars

\* the skip was requested while the set directive was being handled or gated;
\* the directive's fixed wait began with it, returned at once and cleared it
C30_Witness ==
    /\ scen.name = "delays"
    /\ pc = "delays_dm"
    /\ obs.pending
    /\ obs.total = 50
    /\ obs.exit = "skip"
    /\ now = 0
    /\ ~skip_wait
    /\ "x" \in DOMAIN variables

\* what object j holds: the contents of its two dicts and its two flags
StateOf(j) ==
    [variables |-> VariablesOf(j), functions |-> FunctionsOf(j),
     paused |-> instances.of[j].paused, skip_wait |-> instances.of[j].skip_wait]

\* C22: separate engine objects share no state: a step of one object
\* (construction, set, call, foreach, toggle pause, request skip, a wait or a
\* gate consuming a skip or a pause) leaves the Variable Store, the function
\* table, the paused flag and the skip flag of the other as they were; so a
\* skip or pause requested on one object is cleared only by that object.
C22_InstancesShareNothing ==
    [][ \A j \in Constructed :
           /\ j # instances'.actor => StateOf(j)' = StateOf(j)
           /\ (instances.of[j].skip_wait /\ ~instances'.of[j].skip_wait)
              => instances'.actor = j ]_vars

\* both objects exist; the first has run a set, a call and a foreach, is paused
\* and has a skip pending; the second has only what its construction gave it
C22_Witness ==
    /\ Constructed = Instances
    /\ instances.of[1].variables # instances.of[2].variables
    /\ instances.of[1].functions # instances.of[2].functions
    /\ {"x", "arg0", "seen", "item", "index"} \subseteq DOMAIN VariablesOf(1)
    /\ VariablesOf(2) = InitVariables
    /\ FunctionsOf(1) # FunctionsOf(2)
    /\ instances.of[1].paused /\ instances.of[1].skip_wait
    /\ ~instances.of[2].paused /\ ~instances.of[2].skip_wait

-----------------------------------------------------------------------------
(* The listener threads of the objects of one process and the hotkeys the   *)
(* keyboard module holds for it                                             *)

\* if self._hotkeys_started: return   (tested by _start_pause_listener)
HotkeysStarted(i) == instances.of[i]._hotkeys_started

\* the thread of object i: with keyboard None it logs and ends; else it calls
\* keyboard.add_hotkey for ctrl+space and for ctrl+n with the object's bound
\* methods, sets self._hotkeys_started and blocks in keyboard.wait(); an
\* exception of add_hotkey is logged and ends the thread
_start_pause_listener_i ==
    /\ \E i \in Constructed :
          /\ instances.of[i].listener = "start"
          /\ IF HotkeysStarted(i) \/ ~keyboard
             THEN instances' = [instances EXCEPT !.of[i].listener = "ended",
                                                 !.actor = i]
             ELSE \E out \in Outcomes :
                     IF out = "raises"
                     THEN instances' = [instances EXCEPT !.of[i].listener = "ended",
                                                         !.actor = i]
                     ELSE instances' =
                             [instances EXCEPT
                                 !.of[i].listener = "wait",
                                 !.of[i]._hotkeys_started = TRUE,
                                 !.actor = i,
                                 !.backend = @ \o << <<"ctrl+space", i>>,
                                                     <<"ctrl+n", i>> >>]
    /\ UNCHANGED <<restVars, SKIP_EVENT, PAUSE_TOGGLE_EVENT>>

\* the objects whose callback the keyboard module holds for a combination
Registered(combo) ==
    {k \in 1..Len(instances.backend) : instances.backend[k][1] = combo}

\* the user presses ctrl+space: the keyboard module calls every callback
\* registered for it, self._toggle_pause of each registering object
press_ctrl_space ==
    /\ Registered("ctrl+space") # {}
    /\ instances' =
          [instances EXCEPT
              !.of = [j \in Constructed |->
                         IF \E k \in Registered("ctrl+space") :
                               instances.backend[k][2] = j
                         THEN [instances.of[j] EXCEPT !.paused = ~@]
                         ELSE instances.of[j]],
              !.actor = 0]
    /\ UNCHANGED <<restVars, SKIP_EVENT, PAUSE_TOGGLE_EVENT>>

\* the user presses ctrl+n: self._skip_wait_now of each registering object
press_ctrl_n ==
    /\ Registered("ctrl+n") # {}
    /\ instances' =
          [instances EXCEPT
              !.of = [j \in Constructed |->
                         IF \E k \in Registered("ctrl+n") : instances.backend[k][2] = j
                         THEN [instances.of[j] EXCEPT !.skip_wait = TRUE]
                         ELSE instances.of[j]],
              !.actor = 0]
    /\ UNCHANGED <<restVars, SKIP_EVENT, PAUSE_TOGGLE_EVENT>>

\* one process, the keyboard module imported or not, no object constructed yet
InitListeners ==
    /\ Loaded(Scenario("listeners", <<>>, 0, <<>>))
    /\ keyboard \in BOOLEAN
    /\ hotkeys = NoHotkeys
    /\ instances = NoInstances
    /\ typing = NoTyping
    /\ extnode = NoExtnode
    /\ runner = NoRunner
    /\ bridge = FALSE
    /\ voice = "absent"

NextListeners ==
    \/ __init__
    \/ _start_pause_listener_i
    \/ press_ctrl_space
    \/ press_ctrl_n
    \/ _sleep_ms_interruptible_i

\* the frontend constructs an engine object per start of a program; each object
\* starts its listener thread
SpecListeners == InitListeners /\ [][NextListeners]_vars

-----------------------------------------------------------------------------
(* _type_text, call by call of pyperclip and pyautogui; another program may *)
(* write the clipboard at any time                                          *)

typeRest == <<progVars, variables, flagVars, restart_requested, keyboard, instances,
              hotkeys, extnode, runner, keyN, keySpace, bridge, SKIP_EVENT,
              PAUSE_TOGGLE_EVENT, voice, now, pc, stack, cur, gret, waitVars, err,
              trace, obs>>

\* for attempt in range(5)
TypeAttempts == 5

\* mode.lower(), on the modes of the model
ModeLower(m) ==
    CASE m \in {"type", "copy_paste", "paste"} -> m
      [] m = "Copy_Paste" -> "copy_paste"

\* if not pyautogui: return;  if mode.lower() != "copy_paste" or not pyperclip:
\* pyautogui.write(s); return;  ok = False
type_enter ==
    /\ typing.pc = "call"
    /\ IF ~typing.pyautogui
       THEN typing' = [typing EXCEPT !.pc = "return"]
       ELSE IF ModeLower(typing.mode) # "copy_paste" \/ ~typing.pyperclip
       THEN typing' = [typing EXCEPT !.pc = "return",
                          !.sent = Append(@, [op |-> "write", text |-> typing.text])]
       ELSE typing' = [typing EXCEPT !.pc = "copy", !.attempt = 0, !.ok = FALSE]
    /\ UNCHANGED typeRest

\* the head of the loop, and try: pyperclip.copy(s)
\* except Exception: time.sleep(0.1); continue
type_copy ==
    /\ typing.pc = "copy"
    /\ IF typing.attempt >= TypeAttempts
       THEN typing' = [typing EXCEPT !.pc = "send"]
       ELSE \E out \in Outcomes :
               IF out = "raises"
               THEN typing' = [typing EXCEPT !.attempt = @ + 1, !.copies = @ + 1]
               ELSE typing' = [typing EXCEPT !.pc = "read", !.copies = @ + 1,
                                             !.clipboard = typing.text]
    /\ UNCHANGED typeRest

\* a loop that leaves at the first read, whatever it returned
TypeVerifiedAlways(c, t) == TRUE
\* if cur == s
TypeVerified(c, t) == c = t

\* time.sleep(...); try: cur = pyperclip.paste() except Exception: cur = None
\* if cur == s: ok = True; break
type_read ==
    /\ typing.pc = "read"
    /\ \E out \in Outcomes :
          LET c == IF out = "raises" THEN "None" ELSE typing.clipboard
          IN IF TypeVerified(c, typing.text)
             THEN typing' = [typing EXCEPT !.pc = "send", !.ok = TRUE, !.reads = @ + 1,
                                           !.matched = (c = typing.text),
                                           !.clobbered = FALSE]
             ELSE typing' = [typing EXCEPT !.pc = "copy", !.attempt = @ + 1,
                                           !.reads = @ + 1]
    /\ UNCHANGED typeRest

\* if ok: pyautogui.hotkey("ctrl","v")  else: pyautogui.write(s);  the chord
\* pastes what the clipboard holds
type_send ==
    /\ typing.pc = "send"
    /\ typing' = [typing EXCEPT
                     !.pc = "return",
                     !.sent = Append(@, IF typing.ok
                                        THEN [op |-> "hotkey", text |-> typing.clipboard]
                                        ELSE [op |-> "write", text |-> typing.text])]
    /\ UNCHANGED typeRest

\* another program copies something
clipboard_other ==
    /\ typing.pc \in {"call", "copy", "read", "send"}
    /\ typing.clipboard # "other"
    /\ typing' = [typing EXCEPT !.clipboard = "other", !.clobbered = TRUE]
    /\ UNCHANGED typeRest

\* _type_text(text, mode=mode) is called: the text, the mode, the two optional
\* modules, the clipboard
InitType ==
    /\ Loaded(Scenario("type", <<>>, 0, <<>>))
    /\ keyboard = FALSE
    /\ hotkeys = NoHotkeys
    /\ instances = NoInstances
    /\ \E t \in {"abc", ""}, m \in {"type", "copy_paste", "Copy_Paste", "paste"},
          g \in BOOLEAN, c \in BOOLEAN, b \in {"", "abc", "other"} :
          typing = [NoTyping EXCEPT !.pc = "call", !.text = t, !.mode = m,
                                    !.pyautogui = g, !.pyperclip = c, !.clipboard = b]
    /\ extnode = NoExtnode
    /\ runner = NoRunner
    /\ bridge = FALSE
    /\ voice = "absent"

NextType ==
    \/ type_enter
    \/ type_copy
    \/ type_read
    \/ type_send
    \/ clipboard_other

SpecType == InitType /\ [][NextType]_vars

-----------------------------------------------------------------------------
(* usefulclicker_runner.py: the daemon's text buffer, the tap, show and flush *)

\* everything but the runner
runnerRest == <<progVars, variables, flagVars, restart_requested, keyboard, instances,
                hotkeys, typing, extnode, keyN, keySpace, bridge, SKIP_EVENT,
                PAUSE_TOGGLE_EVENT, voice, now, pc, stack, cur, gret, waitVars, err,
                trace, obs>>

\* calls of _dump_text in a run, and presses of Ctrl+S, Ctrl+D and Ctrl+B
MaxDumps == 3
MaxKeys == 2

\* the text of the n-th call of _dump_text when it carries a line
DumpLines == <<" l1 ", "l2 ", " l3", " l4 ", "l5 ">>
\* the texts _dump_text is called with
DumpTexts(n) == {"", " ", "(empty)", " (empty) ", DumpLines[n]}
DumpTags == {"VOICE RAW", "VOICE SEG", "VOICE ERR"}

\* what self.voice.manual_flush(reason="Ctrl+S") does to its caller: the daemon
\* has no such method, it raises, it returns nothing, it returns a text
ManualFlush == {"absent", "raises", "nothing", "text"}

\* the runner after __init__ and _try_start_voice: the daemon, its _text_buffer
\* and the holder of its _buf_lock; the daemon thread inside tapped(tag, text);
\* the thread of run() and the parts it copied; what went into the buffer
\* (inserted), which of it the tap put there (appended), how much of it the last
\* clear() had seen (cleared), and what _flush_buffer and _read_buffer returned
StartedRunner(kind) ==
    [voice |-> kind, _text_buffer |-> <<>>, _buf_lock |-> "free",
     tpc |-> "idle", tag |-> "", t |-> "", ret |-> "", dumps |-> 0,
     rpc |-> "loop", parts |-> <<>>, manual |-> "absent",
     inserted |-> <<>>, appended |-> <<>>, cleared |-> 0,
     flushes |-> <<>>, shows |-> <<>>, keys |-> 0]

\* a lock that nobody holds can be taken whoever asks
AcquirableAlways(lock) == TRUE

\* threading.Lock: `with vd._buf_lock` goes on when nobody holds the lock
Acquirable(lock) == lock = "free"

\* "\n".join(parts).strip(): the parts are stripped and not empty, so the text
\* is the parts one per line; no part, the empty text
Joined(parts) == [lines |-> parts]

\* the daemon thread calls _dump_text, which is tapped: orig(tag, text) runs
\* (and may raise), then t = (text or "").strip()
tapped ==
    /\ runner.voice = "tapped"
    /\ runner.tpc = "idle"
    /\ runner.rpc # "stopped"
    /\ runner.dumps < MaxDumps
    /\ \E tag \in DumpTags, text \in DumpTexts(runner.dumps + 1),
          ret \in {"ret", "None"} :
          runner' = [runner EXCEPT !.tpc = "filter", !.tag = tag,
                                   !.t = strip(text), !.ret = ret,
                                   !.dumps = @ + 1]
    /\ UNCHANGED runnerRest

\* if tag in ("VOICE RAW", "VOICE SEG"): if t and t != "(empty)": ... return ret
\* (the call's locals end with the call)
tap_filter ==
    /\ runner.tpc = "filter"
    /\ runner' = IF runner.tag \in {"VOICE RAW", "VOICE SEG"}
                    /\ runner.t # "" /\ runner.t # "(empty)"
                 THEN [runner EXCEPT !.tpc = "lock"]
                 ELSE [runner EXCEPT !.tpc = "idle", !.tag = "", !.t = "",
                                     !.ret = ""]
    /\ UNCHANGED runnerRest

\* with vd._buf_lock:
tap_lock ==
    /\ runner.tpc = "lock"
    /\ Acquirable(runner._buf_lock)
    /\ runner' = [runner EXCEPT !._buf_lock = "tap", !.tpc = "append"]
    /\ UNCHANGED runnerRest

\* vd._text_buffer.append(t), and the lock is released
tap_append ==
    /\ runner.tpc = "append"
    /\ runner' = [runner EXCEPT !._text_buffer = Append(@, runner.t),
                                !.inserted = Append(@, runner.t),
                                !.appended = Append(@, runner.t),
                                !._buf_lock = "free", !.tpc = "idle",
                                !.tag = "", !.t = "", !.ret = ""]
    /\ UNCHANGED runnerRest

\* the buffer of the runner: the daemon has _buf_lock and _text_buffer
HasBuffer == runner.voice = "tapped"

\* run(): Ctrl+S is down, _action_flush calls _flush_buffer; without a daemon
\* it returns ""; with manual_flush, it is called first
_flush_buffer ==
    /\ runner.rpc = "loop"
    /\ runner.keys < MaxKeys
    /\ IF runner.voice = "none"
       THEN runner' = [runner EXCEPT !.keys = @ + 1, !.flushes =
                          Append(@, [by |-> "none", text |-> Joined(<<>>)])]
       ELSE \E m \in ManualFlush :
               runner' = [runner EXCEPT !.keys = @ + 1, !.manual = m,
                                        !.rpc = "f_manual"]
    /\ UNCHANGED runnerRest

\* t = self.voice.manual_flush(reason="Ctrl+S"); if t: return t.strip(); an
\* exception is passed over; then the buffer, when the daemon has one
flush_manual ==
    /\ runner.rpc = "f_manual"
    /\ runner' =
         IF runner.manual = "text"
         THEN [runner EXCEPT !.rpc = "loop", !.manual = "absent", !.flushes =
                  Append(@, [by |-> "manual_flush", text |-> [lines |-> <<"daemon">>]])]
         ELSE IF HasBuffer THEN [runner EXCEPT !.rpc = "f_lock", !.manual = "absent"]
         ELSE [runner EXCEPT !.rpc = "loop", !.manual = "absent", !.flushes =
                  Append(@, [by |-> "none", text |-> Joined(<<>>)])]
    /\ UNCHANGED runnerRest

\* with self.voice._buf_lock:
flush_lock ==
    /\ runner.rpc = "f_lock"
    /\ Acquirable(runner._buf_lock)
    /\ runner' = [runner EXCEPT !._buf_lock = "runner", !.rpc = "f_copy"]
    /\ UNCHANGED runnerRest

\* parts = [p for p in self.voice._text_buffer if isinstance(p, str)]
flush_copy ==
    /\ runner.rpc = "f_copy"
    /\ runner' = [runner EXCEPT !.parts = runner._text_buffer, !.rpc = "f_clear"]
    /\ UNCHANGED runnerRest

\* self.voice._text_buffer.clear()
flush_clear ==
    /\ runner.rpc = "f_clear"
    /\ runner' = [runner EXCEPT !._text_buffer = <<>>,
                                !.cleared = Len(runner.inserted),
                                !.rpc = "f_return"]
    /\ UNCHANGED runnerRest

\* the lock is released; return "\n".join(parts).strip()
flush_return ==
    /\ runner.rpc = "f_return"
    /\ runner' = [runner EXCEPT !._buf_lock = "free", !.rpc = "loop",
                                !.parts = <<>>, !.flushes =
                     Append(@, [by |-> "buffer", text |-> Joined(runner.parts)])]
    /\ UNCHANGED runnerRest

\* run(): Ctrl+D is down, _action_show calls _read_buffer; "" without a buffer
_read_buffer ==
    /\ runner.rpc = "loop"
    /\ runner.keys < MaxKeys
    /\ runner' = IF HasBuffer THEN [runner EXCEPT !.keys = @ + 1, !.rpc = "s_lock"]
                 ELSE [runner EXCEPT !.keys = @ + 1, !.shows =
                          Append(@, [text |-> Joined(<<>>), buffer |-> <<>>])]
    /\ UNCHANGED runnerRest

\* with self.voice._buf_lock:
read_lock ==
    /\ runner.rpc = "s_lock"
    /\ Acquirable(runner._buf_lock)
    /\ runner' = [runner EXCEPT !._buf_lock = "runner", !.rpc = "s_copy"]
    /\ UNCHANGED runnerRest

\* parts = [p for p in self.voice._text_buffer if isinstance(p, str)]
read_copy ==
    /\ runner.rpc = "s_copy"
    /\ runner' = [runner EXCEPT !.parts = runner._text_buffer, !.rpc = "s_return"]
    /\ UNCHANGED runnerRest

\* the lock is released; return "\n".join(parts).strip()
read_return ==
    /\ runner.rpc = "s_return"
    /\ runner' = [runner EXCEPT !._buf_lock = "free", !.rpc = "loop",
                                !.parts = <<>>, !.shows =
                     Append(@, [text |-> Joined(runner.parts),
                                buffer |-> runner._text_buffer])]
    /\ UNCHANGED runnerRest

\* run(): Ctrl+B is down: _action_append_test, nothing without a buffer
_action_append_test ==
    /\ runner.rpc = "loop"
    /\ runner.keys < MaxKeys
    /\ runner' = [runner EXCEPT !.keys = @ + 1,
                                !.rpc = IF HasBuffer THEN "b_lock" ELSE "loop"]
    /\ UNCHANGED runnerRest

\* with self.voice._buf_lock:
test_lock ==
    /\ runner.rpc = "b_lock"
    /\ Acquirable(runner._buf_lock)
    /\ runner' = [runner EXCEPT !._buf_lock = "runner", !.rpc = "b_append"]
    /\ UNCHANGED runnerRest

\* self.voice._text_buffer.append("[TEST INSERT] hello from runner")
test_append ==
    /\ runner.rpc = "b_append"
    /\ runner' = [runner EXCEPT
                     !._text_buffer = Append(@, "[TEST INSERT] hello from runner"),
                     !.inserted = Append(@, "[TEST INSERT] hello from runner"),
                     !._buf_lock = "free", !.rpc = "loop"]
    /\ UNCHANGED runnerRest

\* run(): Esc is down: self._stop.set(); break; stop_voice()
runner_stop ==
    /\ runner.rpc = "loop"
    /\ runner' = [runner EXCEPT !.rpc = "stopped"]
    /\ UNCHANGED runnerRest

\* _try_start_voice: no VoiceDaemon to start ("none"), a daemon without
\* _dump_text, which is left untapped, or a daemon whose _dump_text is tapped
InitRunner ==
    /\ Loaded(Scenario("runner", <<>>, 0, <<>>))
    /\ keyboard = FALSE
    /\ hotkeys = NoHotkeys
    /\ instances = NoInstances
    /\ typing = NoTyping
    /\ extnode = NoExtnode
    /\ \E kind \in {"none", "untapped", "tapped"} : runner = StartedRunner(kind)
    /\ bridge = FALSE
    /\ voice = "absent"

NextRunner ==
    \/ tapped
    \/ tap_filter
    \/ tap_lock
    \/ tap_append
    \/ _flush_buffer
    \/ flush_manual
    \/ flush_lock
    \/ flush_copy
    \/ flush_clear
    \/ flush_return
    \/ _read_buffer
    \/ read_lock
    \/ read_copy
    \/ read_return
    \/ _action_append_test
    \/ test_lock
    \/ test_append
    \/ runner_stop

SpecRunner == InitRunner /\ [][NextRunner]_vars

-----------------------------------------------------------------------------
(* run() to its end: the worker thread is scheduled again and again, the    *)
(* hotkey thread calls its callbacks whenever it likes                      *)

\* the clock reading up to which a sleep made while paused is counted: a pause
\* may last any time, and past this reading its slices leave the clock where it
\* is, which only makes the timeouts that follow later
PauseHorizon == step

\* scripts without reference cycles and with finite waits and timeouts: loops
\* over a call, a wait with delays, a voice_event with a timeout, a failing call
LiveScenarios ==
    { Scenario("live_loops",
          <<FuncF, ForeachSetup(ItemList(2)),
            Node("r1", "repeat", A1("times", "2"),
                 <<Node("k1", "call", A1("name", "f"), <<>>)>>),
            Node("fe", "foreach", A1("list", "ITEMS") \o A1("do", "f"), <<>>),
            Set1("z1", "d", "1")>>, 0, <<>>),
      Scenario("live_wait",
          <<Leaf("w1", "wait", "ms", "100"),
            Node("s1", "set", A1("x", "1") \o A1("delay_fixed", "50"), <<>>)>>,
          0, <<>>),
      Scenario("live_voice",
          <<Node("v1", "voice_event", A1("wait", "100") \o A1("out", "v"), <<>>),
            Set1("z1", "d", "1")>>, 0, <<>>),
      Scenario("live_fatal",
          <<Set1("p1", "a", "1"), Node("k1", "call", A1("name", "missing"), <<>>),
            Set1("z1", "d", "1")>>, 0, <<>>) }

\* time.sleep(0.05) of the gate loop ends
gate_sleep_live ==
    /\ pc = "gate_sleep"
    /\ now' = IF now + step <= PauseHorizon THEN now + step ELSE now
    /\ pc' = "gate"
    /\ UNCHANGED <<progVars, variables, flagVars, restart_requested, envVars,
                   stack, cur, gret, waitVars, err, trace, obs>>

\* time.sleep(dur) of the wait loop ends
w_sleep_live ==
    /\ pc = "w_sleep"
    /\ IF obs.br = "pause"
       THEN now' = IF now + dur <= PauseHorizon THEN now + dur ELSE now
       ELSE now + dur <= MaxSlices * step /\ now' = now + dur
    /\ pc' = "w_poll"
    /\ obs' = IF obs.br = "pause" THEN obs ELSE [obs EXCEPT !.active = @ + dur]
    /\ UNCHANGED <<progVars, variables, flagVars, restart_requested, envVars,
                   stack, cur, gret, waitVars, err, trace>>

InitLive ==
    /\ \E sc \in LiveScenarios : Loaded(sc)
    /\ keyboard = FALSE
    /\ hotkeys = NoHotkeys
    /\ instances = NoInstances
    /\ typing = NoTyping
    /\ extnode = NoExtnode
    /\ runner = NoRunner
    /\ bridge = FALSE
    /\ voice = (IF scen.name = "live_voice" THEN "ready_env" ELSE "absent")

\* the steps of the thread that executes run()
LiveWorker ==
    \/ run
    \/ _pause_gate
    \/ gate_sleep_live
    \/ handle_set
    \/ handle_wait
    \/ handle_repeat
    \/ repeat_loop
    \/ handle_foreach
    \/ foreach_loop
    \/ foreach_bind
    \/ handle_call
    \/ call_loop
    \/ handle_voice_event
    \/ ve_skip
    \/ ve_get
    \/ delays_fixed
    \/ delays_jitter
    \/ w_poll
    \/ w_skip
    \/ w_paused
    \/ w_time
    \/ w_sleep_live

NextLive ==
    \/ LiveWorker
    \/ _toggle_pause
    \/ _skip_wait_now

\* the thread that executes run() is not starved; the callbacks are free
SpecLive == InitLive /\ [][NextLive]_vars /\ WF_vars(LiveWorker)

(* Claims C31..C39 *)

\* what the interpreter has to go on with: the store, the table, its position
Progress == <<variables, functions, tree, pc, stack, cur, gret, waitVars, err, trace>>

\* C31: with no key poll and no voice daemon, paused changes only by
\* _toggle_pause and skip_wait becomes true only by _skip_wait_now; such a step
\* changes that flag and nothing else (not the other flag, the store, the table
\* or the worker's position); the pause gate that holds the worker changes
\* nothing either, and lets it go on to the directive it was called for.
C31_SignalsChangeOnlyTheirFlag ==
    [][ /\ paused' # paused => (UNCHANGED Progress /\ skip_wait' = skip_wait)
        /\ (~skip_wait /\ skip_wait') => (UNCHANGED Progress /\ paused' = paused)
        /\ (pc \in GatePcs /\ pc' \in GatePcs)
           => /\ UNCHANGED <<variables, functions, stack, cur, trace>>
              /\ paused => gret' = gret
        /\ (pc = "gate" /\ pc' \notin GatePcs)
           => (pc' = AfterGate /\ UNCHANGED <<variables, functions, stack, cur>>) ]_vars

\* a run that was paused at a gate (the clock moved in a script without waits),
\* resumed, and finished with the store of the unpaused run
C31_Witness ==
    /\ scen.name = "scope"
    /\ pc = "done"
    /\ now >= 2 * step
    /\ ~paused
    /\ trace = <<"p1", "k1", "b1", "k2", "gb", "b3", "z1">>
    /\ variables["x"] = IntV(2)
    /\ variables["u"] = StrV("abc")

\* run() has returned: past the last top-level directive, or by an error
Finished == pc \in {"done", "error"}

\* C32, as stated: if paused is false again and again, run() finishes; and if
\* paused stays true from some point on, the worker dispatches nothing more.
C32_ResumedRunFinishes ==
    /\ ([]<>~paused) => <>Finished
    /\ (<>[]paused) => <>[][trace' = trace]_vars

\* C32: if from some point on paused stays false (the last pause is resumed),
\* run() finishes, by dispatching the last top-level directive or by a fatal
\* error; if paused stays true from some point on, the worker dispatches nothing
\* after the directive it had passed the gate for.
C32_RunFinishesOncePausesEnd ==
    /\ (<>[]~paused) => <>Finished
    /\ (<>[]paused) => <>[][trace' = trace]_vars

\* a run that was held at a gate, was resumed, and came to its end
C32_Witness ==
    /\ scen.name = "live_loops"
    /\ pc = "done"
    /\ now > 0
    /\ ~paused
    /\ trace = <<"p1", "r1", "k1", "b1", "b2", "k1", "b1", "b2",
                 "fe", "b1", "b2", "b1", "b2", "z1">>

\* C33: the body of a repeat whose count is the variable n (2 at entry) sets n
\* to 0 or to 3, and the repeat makes 2 passes; the body of a foreach over ITEMS
\* (['e1', 'e2'] at entry) sets ITEMS to [] or to a list of three, and the
\* foreach binds e1 and e2, once each (in that order without random_shuffle),
\* and makes 2 passes; entering the foreach, shuffling and binding leave the
\* stored ITEMS as it is, so that it is the entry list until the body assigns it.
C33_LoopBoundsFixedAtEntry ==
    [][ /\ scen.name = "repeat_fixed" =>
              /\ Count("c1", trace') <= 2
              /\ pc' = "done" => trace' = <<"p1", "r1", "c1", "c1", "z1">>
        /\ scen.name = "foreach_fixed" =>
              /\ Count("hb", trace') <= 2
              /\ pc' = "done" => Count("hb", trace') = 2
              /\ (pc = "bind" /\ pc' # "bind") =>
                    /\ variables'["x"] \in {StrV("e1"), StrV("e2")}
                    /\ Count("hb", trace) = 1 => variables'["x"] # variables["x"]
                    /\ ~HasAttr(Top.node, "random_shuffle")
                          => variables'["x"] = StrV(scen.items[Count("hb", trace) + 1])
              /\ (pc = "bind" \/ (pc = "dispatch" /\ cur.id = "fe"))
                    => variables'["ITEMS"] = variables["ITEMS"]
              /\ (Dispatched("p1") /\ ~Dispatched("hb") /\ pc # "dispatch")
                    => variables["ITEMS"] = ListV(scen.items) ]_vars

\* a shuffled foreach bound e2 and then e1 although its body had replaced ITEMS
\* by a list of three after the first element; ITEMS is what the body stored
C33_Witness ==
    /\ scen.name = "foreach_fixed"
    /\ pc = "done"
    /\ variables["x"] = StrV("e1")
    /\ variables["index"] = IntV(1)
    /\ variables["ITEMS"] = ListV(ItemList(3))
    /\ Count("hb", trace) = 2

\* C34, as stated: an if whose condition names a variable or a math function
\* bare never dispatches a child of its then branch.
C34_BareNameRunsElse ==
    (scen.name = "if_names" /\ scen.bare) => ~Dispatched("t1")

\* C34: the condition of an if is evaluated with no name defined.  A condition
\* whose evaluation looks up a bare name (the variable x, whatever its value, or
\* a math function) raises, counts as false and runs the else branch; a name in
\* an operand that `or` / `and` skip is not looked up, and the condition has the
\* value of the first operand; ${x} is replaced by the variable's value first.
C34_IfSeesNoNames ==
    scen.name = "if_names" =>
        /\ pc # "error"
        /\ IsPrefix(trace, <<"p1", "i1">> \o scen.items \o <<"z1">>)
        /\ pc = "done" => trace = <<"p1", "i1">> \o scen.items \o <<"z1">>
        /\ (scen.bare /\ scen.reached) => ~Dispatched("t1")
        /\ (~scen.bare /\ Dispatched("i1"))
              => (Dispatched("u1") => variables["x"] = IntV(0))
                 /\ (Dispatched("t1") => variables["x"] = IntV(1))

\* x is 1 and the condition is the bare name x: the else branch ran
C34_Witness ==
    /\ scen.name = "if_names"
    /\ NodeGet(scen.tree[2], "cond", "") = "x"
    /\ pc = "done"
    /\ trace = <<"p1", "i1", "u1", "u2", "z1">>
    /\ variables["x"] = IntV(1)

\* the call is in copy_paste mode with both modules present
CopyPaste ==
    typing.pyautogui /\ typing.pyperclip /\ ModeLower(typing.mode) = "copy_paste"

\* C35: _type_text in copy_paste mode calls pyperclip.copy at most 5 times and
\* reads the clipboard back only after a copy; the paste chord is sent only after
\* a read that returned exactly the text, and pastes the text unless another
\* program wrote the clipboard after that read; if no read returned the text, the
\* text is written by keystrokes; with pyautogui present exactly one of the two
\* sends is made by the time the call returns, never two, and none without it.
C35_TypeDeliversOnce ==
    /\ typing.copies <= TypeAttempts
    /\ typing.reads <= typing.copies
    /\ Len(typing.sent) <= 1
    /\ \A i \in 1..Len(typing.sent) :
          /\ typing.pyautogui
          /\ typing.sent[i].op = "hotkey"
                => /\ CopyPaste
                   /\ typing.matched
                   /\ typing.sent[i].text = typing.text \/ typing.clobbered
          /\ typing.sent[i].op = "write" => typing.sent[i].text = typing.text
    /\ typing.pc = "return" =>
          /\ Len(typing.sent) = (IF typing.pyautogui THEN 1 ELSE 0)
          /\ (CopyPaste /\ ~typing.matched) => typing.sent[1].op = "write"
          /\ (CopyPaste /\ typing.matched) => typing.sent[1].op = "hotkey"

\* four copies failed or read back something else, the fifth read back the
\* text, and the chord was sent
C35_Witness ==
    /\ typing.pc = "return"
    /\ typing.copies = 5
    /\ typing.reads = 3
    /\ typing.text = "abc"
    /\ typing.sent = << [op |-> "hotkey", text |-> "abc"] >>

\* C36, as stated: however many engine objects the process constructs, the
\* keyboard module holds at most one callback for ctrl+space and at most one
\* for ctrl+n.
C36_HotkeysRegisteredOnce ==
    /\ Cardinality(Registered("ctrl+space")) <= 1
    /\ Cardinality(Registered("ctrl+n")) <= 1

\* no element occurs twice in the sequence
NoRepeats(q) == \A i, j \in 1..Len(q) : q[i] = q[j] => i = j

\* C37: in one engine object, import_module is called at most once for a module
\* name and a class is constructed at most once for a (module, class) pair; every
\* extnode naming a pair calls its method on the object constructed for that
\* pair, so all of them on the same one; an extnode without a class calls the
\* module it names.
C37_ExtnodeHandlesCached ==
    /\ NoRepeats(extnode.imports)
    /\ NoRepeats(extnode.objects)
    /\ \A i \in 1..Len(extnode.calls) :
          LET c == extnode.calls[i]
          IN /\ c.class # "" =>
                   /\ c.target[1] = "object"
                   /\ extnode.objects[c.target[2]] = <<c.module, c.class>>
             /\ c.class = "" =>
                   /\ c.target[1] = "module"
                   /\ extnode.imports[c.target[2]] = c.module
             /\ \A j \in 1..Len(extnode.calls) :
                   (extnode.calls[j].module = c.module
                    /\ extnode.calls[j].class = c.class)
                      => extnode.calls[j].target = c.target

\* six calls were made on two objects and one module: four of them on the
\* object of (m, C), the first that was constructed
C37_Witness ==
    /\ scen.name = "extnode_cache"
    /\ pc = "done"
    /\ extnode.imports = <<"m", "m2">>
    /\ extnode.objects = << <<"m", "C">>, <<"m", "D">> >>
    /\ [i \in 1..Len(extnode.calls) |->
           <<extnode.calls[i].node, extnode.calls[i].target>>]
       = << <<"e1", <<"object", 1>> >>, <<"e2", <<"object", 1>> >>,
            <<"e2", <<"object", 1>> >>, <<"e3", <<"object", 2>> >>,
            <<"e4", <<"module", 2>> >>, <<"e5", <<"object", 1>> >> >>


\* a file that is a full top-level program wrapper: one element, tagged program
Wrapper(files, rel) ==
    rel \in DOMAIN files /\ Len(files[rel]) = 1
    /\ lower(files[rel][1].tag) = "program"

RECURSIVE Spliced(_, _)
\* the script where each include of a program wrapper has given way to the
\* wrapper's children, in their order, at the element's place; an include of
\* another file to the file's elements, of no file to nothing
Spliced(nodes, files) ==
    IF nodes = <<>> THEN <<>>
    ELSE LET h == Head(nodes)
             rel == NodeGet(h, "text", "")
         IN (CASE lower(h.tag) # "include" ->
                      <<[h EXCEPT !.kids = Spliced(h.kids, files)]>>
               [] lower(h.tag) = "include" /\ Wrapper(files, rel) ->
                      files[rel][1].kids
               [] lower(h.tag) = "include" /\ rel \in DOMAIN files
                  /\ ~Wrapper(files, rel) -> files[rel]
               [] lower(h.tag) = "include" /\ rel \notin DOMAIN files -> <<>>)
            \o Spliced(Tail(nodes), files)

\* the wrappers that the script's own include elements name
WrappersIncluded ==
    {NodeGet(DocOrder(scen.raw)[i], "text", "") : i \in
        {j \in 1..Len(DocOrder(scen.raw)) :
            /\ lower(DocOrder(scen.raw)[j].tag) = "include"
            /\ Wrapper(scen.files, NodeGet(DocOrder(scen.raw)[j], "text", ""))}}

\* C38: an include of a file that is a full program wrapper is replaced by the
\* wrapper's top-level children in their order, at the include's place: the
\* loaded tree holds no program element, and the func elements among those
\* children are in the function table.
C38_WrapperChildrenInlined ==
    scen.name = "include" =>
        /\ tree = Spliced(scen.raw, scen.files)
        /\ \A i \in 1..Len(DocOrder(tree)) :
               lower(DocOrder(tree)[i].tag) # "program"
        /\ \A rel \in WrappersIncluded :
               \A k \in 1..Len(scen.files[rel][1].kids) :
                   LET ch == scen.files[rel][1].kids[k]
                   IN lower(ch.tag) = "func" =>
                          /\ NodeGet(ch, "name", "") \in DOMAIN functions
                          /\ functions[NodeGet(ch, "name", "")] = ch
        /\ IsPrefix(trace, scen.items)
        /\ pc = "done" => trace = scen.items

C38_Witness ==
    /\ scen.name = "include"
    /\ WrappersIncluded = {"e.xml", "b.xml"}
    /\ Len(scen.raw) = 5
    /\ Len(tree) = 7
    /\ tree[2].id = "se" /\ tree[3].id = "fe" /\ tree[4].id = "re"
    /\ tree[6].kids[1].id = "sb" /\ tree[6].kids[2].id = "fb"
    /\ DOMAIN functions = {"fe", "fb"}
    /\ trace = <<"s1", "se", "re", "ec", "k1", "eb", "r1", "sb", "fb", "z1">>
    /\ pc = "done"


RECURSIVE FlushedLines(_)
\* the lines of the texts that the flushes returned, one after the other
FlushedLines(fl) ==
    IF fl = <<>> THEN <<>>
    ELSE Head(fl).text.lines \o FlushedLines(Tail(fl))

\* the lines a flush holds between its clear() and its return
InFlight == IF runner.rpc = "f_return" THEN runner.parts ELSE <<>>

\* a step of _read_buffer
ShowStep ==
    \/ runner.rpc \in {"s_lock", "s_copy", "s_return"} /\ runner'.rpc # runner.rpc
    \/ runner.rpc = "loop" /\ runner'.rpc = "s_lock"
    \/ Len(runner'.shows) > Len(runner.shows)

\* C39: in the voice runner every line the tap appended to the daemon's buffer
\* is in the buffer or in the text of exactly one flush, once, whatever the
\* interleaving of the daemon thread and the runner; a flush that used the
\* buffer leaves it empty, so the buffer holds what went in since the last
\* clear; show returns the buffer's contents and leaves the buffer as it is.
C39_TappedLinesFlushedOnce ==
    /\ [](/\ \A i \in 1..Len(runner.appended) :
                Count(runner.appended[i], runner._text_buffer)
                + Count(runner.appended[i], FlushedLines(runner.flushes))
                + Count(runner.appended[i], InFlight) = 1
          /\ runner.rpc = "f_return" => runner._text_buffer = <<>>
          /\ runner._text_buffer =
                SubSeq(runner.inserted, runner.cleared + 1, Len(runner.inserted))
          /\ \A k \in 1..Len(runner.shows) :
                runner.shows[k].text = [lines |-> runner.shows[k].buffer])
    /\ [][ShowStep => runner'._text_buffer = runner._text_buffer]_vars

\* a flush returned l1; the next has copied and cleared l2 and holds the lock
\* while the tap waits with l3
C39_Witness ==
    /\ runner.voice = "tapped"
    /\ runner.appended = <<"l1", "l2">>
    /\ Len(runner.flushes) = 1
    /\ runner.flushes[1] = [by |-> "buffer", text |-> [lines |-> <<"l1">>]]
    /\ runner.shows = <<>>
    /\ runner.rpc = "f_return"
    /\ runner.parts = <<"l2">>
    /\ runner._text_buffer = <<>>
    /\ runner._buf_lock = "runner"
    /\ runner.tpc = "lock"
    /\ runner.t = "l3"

=============================================================================
